---------------------------- MODULE Spec2Model ----------------------------
(***************************************************************************)
(* Verification model of the adaptive-rehab-ai service core:               *)
(*   - SafetyWrapper      (adaptrehab/core/safety_wrapper.py)              *)
(*   - AdaptationEngine   (adaptrehab/core/adaptation_engine.py)           *)
(*   - the decision modules as far as the engine observes them             *)
(*     (adaptrehab/modules/*.py)                                           *)
(*                                                                         *)
(* Real numbers are fixed-point integers in thousandths: 0.2 is 200,       *)
(* 1.0 is 1000.  A Python value that may be a number, a numeric string, a  *)
(* non-numeric string, None or absent is a tagged record [t, v].           *)
(***************************************************************************)
EXTENDS Integers, Sequences, FiniteSets, TLC

VARIABLES
    \* ---- SafetyWrapper fields
    enabled,            \* SafetyWrapper.enabled
    max_change_rate,    \* SafetyWrapper.max_change_rate
    min_confidence,     \* SafetyWrapper.min_confidence
    bounds,             \* SafetyWrapper.bounds: parameter name -> bound entry
    violation_log,      \* SafetyWrapper.violation_log
    \* ---- AdaptationEngine fields
    config,             \* AdaptationEngine.config (module_configs part)
    module_registry,    \* AdaptationEngine.module_registry (registered type names)
    sessions,           \* AdaptationEngine.sessions: session id -> record or NoSession
    active_module,      \* AdaptationEngine.active_module (instance or NoModule)
    is_running,         \* AdaptationEngine.is_running
    stats,              \* AdaptationEngine.stats
    events_published,   \* EventBus._stats['events_published']
    \* ---- observation of the last call (its arguments and what it returned)
    call,
    \* ---- a compute_adaptation call suspended inside the module's compute
    inflight,
    \* ---- EventBus fields and the position of its start_processing task
    bus,
    \* ---- a module constructed and called on its own, outside the engine
    unit

safetyVars == <<enabled, max_change_rate, min_confidence, bounds, violation_log>>
engineVars == <<config, module_registry, sessions, active_module, is_running,
                stats, events_published>>
vars == <<safetyVars, engineVars, call, inflight, bus, unit>>

(***************************************************************************)
(* Values                                                                  *)
(***************************************************************************)
Num(n)    == [t |-> "num", v |-> n]        \* an int or float
NumStr(n) == [t |-> "numstr", v |-> n]     \* a string float() can parse, e.g. "0.5"
BadStr    == [t |-> "badstr", v |-> 0]     \* a string float() rejects, e.g. "abc"
None      == [t |-> "none", v |-> 0]       \* Python None
Absent    == [t |-> "absent", v |-> 0]     \* key not in the dict

IsNum(x) == x.t = "num"

ParamNames == {"difficulty", "current_performance"}

\* AdaptationAction
Actions == {"increase", "decrease", "maintain"}

\* AdaptationDecision.  explanation is kept as its origin (base) and whether
\* the " [Rate limited to ...]" note was appended.
Explanation(base) == [base |-> base, rate_limited |-> FALSE]

Decision(a, m, p, c, e) ==
    [action |-> a, magnitude |-> m, parameters |-> p, confidence |-> c,
     explanation |-> e]

\* StateVector: the fields the engine, the validator and the modules read.
\* missing names the map that is None ("none": all three maps are present).
StateVector(missing, accuracy, success_rate, difficulty) ==
    [missing |-> missing, accuracy |-> accuracy, success_rate |-> success_rate,
     error_rate |-> Absent, reaction_time |-> Absent,
     difficulty |-> difficulty]

\* a state whose performance_metrics name all four metrics the fuzzy module
\* reads
Metrics(accuracy, success_rate, error_rate, reaction_time, difficulty) ==
    [missing |-> "none", accuracy |-> accuracy, success_rate |-> success_rate,
     error_rate |-> error_rate, reaction_time |-> reaction_time,
     difficulty |-> difficulty]

NoParams == [n \in ParamNames |-> Absent]

\* Bound entries of SafetyWrapper.bounds
NoBound       == [k |-> "none",   min |-> 0, max |-> 0]  \* name not in bounds
Range(lo, hi) == [k |-> "range",  min |-> lo, max |-> hi] \* {'min': lo, 'max': hi}
MinOnly(lo)   == [k |-> "min",    min |-> lo, max |-> 0]  \* {'min': lo}
MaxOnly(hi)   == [k |-> "max",    min |-> 0, max |-> hi]  \* {'max': hi}
Scalar        == [k |-> "scalar", min |-> 0, max |-> 0]   \* entry that is no dict

IsDict(b) == b.k \in {"range", "min", "max"}

(***************************************************************************)
(* Program constants (thousandths)                                         *)
(***************************************************************************)
DefaultMaxChangeRate == 200
DefaultMinConfidence == 300
SafeConfidence == 1000
LogCapacity == 1000
DefaultDifficulty == 500
DefaultMaxDiff == 1000
DefaultMinDiff == 0
One == 1000                     \* 1.0
DefaultSuccessThreshold == 800
DefaultFailureThreshold == 400
DefaultIncreaseStep == 100
DefaultDecreaseStep == 150
HistoryWindow == 5
BaselineMargin == 200           \* baseline +/- 0.2
SuccessCeiling == 900           \* min(0.9, baseline + 0.2)
FailureFloor == 300             \* max(0.3, baseline - 0.2)
MaintainConfidence == 900
DefaultAccuracy == 500
DefaultStepSize == 100
FuzzyMaxHistory == 5
DefaultReactionScore == 500     \* max(0, 1 - 1.0 / 2.0)
MaintainThreshold == 10         \* abs(difficulty_change) < 0.01
DefaultEpsilon == 200
EpsilonDecay == 995
EpsilonMin == 10
RLMagnitude == 150
RLMaxHistory == 10
Alpha == 100                    \* learning_rate 0.1
Gamma == 900                    \* discount_factor 0.9
DefaultPerfBins == 10
DefaultDiffBins == 5
TrendNeutral == 500             \* the older mean of a short history
TrendMargin == 50               \* 0.05
LearningRounds == 50            \* the rounds of test_learning_over_time

(***************************************************************************)
(* Bounds of the model                                                     *)
(***************************************************************************)
\* validate_decision is explored while the log holds fewer records than this
MaxLogLen == 1
\* an operation is explored when it leaves at most this many events published
MaxEvents == 2
\* a module's compute_adaptation is explored while its history holds fewer
\* values and its epsilon has decayed fewer times
MaxLearning == 2
\* under SpecSwap an operation is explored while the adaptations counted and
\* the modules swapped are fewer than this
MaxSwapOps == 2

\* events a bus accepts and subscriptions it holds
MaxBusEvents == 2
MaxSubscribers == 2
MaxExplore == 1

(***************************************************************************)
(* SafetyWrapper                                                           *)
(***************************************************************************)

\* _create_safe_default
CreateSafeDefault ==
    Decision("maintain", Num(0), NoParams, Num(SafeConfidence),
             Explanation("safe_default"))

\* Faulty variant: the log is never cut
LogViolationUnbounded(log, vtype, decision) ==
    Append(log, [type |-> vtype, decision |-> decision])

\* _log_violation: append {type, asdict(decision)}, keep the last LogCapacity
LogViolation(log, vtype, decision) ==
    LET appended == Append(log, [type |-> vtype, decision |-> decision])
    IN  IF Len(appended) > LogCapacity
        THEN SubSeq(appended, Len(appended) - LogCapacity + 1, Len(appended))
        ELSE appended

\* Faulty variant: the parameter is handed back as it came, never clamped
BoundedValueUnclamped(b, value) == value

\* One parameter through _apply_parameter_bounds (safety_wrapper.py:124-140).
BoundedValue(b, value) ==
    IF b.k = "range" /\ IsNum(value)
    THEN IF value.v < b.min THEN Num(b.min)
         ELSE IF value.v > b.max THEN Num(b.max)
         ELSE value
    ELSE value

\* _apply_parameter_bounds: (bounded, modified)
ApplyParameterBounds(parameters) ==
    LET bounded == [n \in ParamNames |-> BoundedValue(bounds[n], parameters[n])]
    IN  [bounded |-> bounded, modified |-> bounded # parameters]

\* The validation pipeline threads a context through its four checks:
\*   raised   an exception left validate_decision
\*   orig     the caller's decision object (the checks mutate it in place while
\*            modified_decision still aliases it)
\*   cur      modified_decision
\*   aliased  modified_decision is decision (same object)
\*   modified was_modified
\*   log      violation_log
\*   recorded the violation types logged by this call, in order
Raise(ctx) == [ctx EXCEPT !.raised = TRUE]

\* Faulty variant: a violation counts as a modification only while the log
\* is empty
RecordFirstOnly(ctx, vtype) ==
    [ctx EXCEPT !.log = LogViolation(ctx.log, vtype, ctx.orig),
                !.recorded = Append(ctx.recorded, vtype),
                !.modified = ctx.modified \/ ctx.log = <<>>]

Record(ctx, vtype) ==
    [ctx EXCEPT !.log = LogViolation(ctx.log, vtype, ctx.orig),
                !.recorded = Append(ctx.recorded, vtype),
                !.modified = TRUE]

\* Faulty variant: the confidence threshold is not looked at
CheckConfidenceSkipped(ctx) == ctx

\* 1. Check confidence threshold (safety_wrapper.py:73-82)
CheckConfidence(ctx) ==
    IF ctx.raised THEN ctx
    ELSE IF ~IsNum(ctx.orig.confidence) THEN Raise(ctx)
    ELSE IF ctx.orig.confidence.v < min_confidence
         THEN Record([ctx EXCEPT
                        !.cur = [CreateSafeDefault EXCEPT
                                   !.explanation = Explanation("low_confidence")],
                        !.aliased = FALSE],
                     "low_confidence")
         ELSE ctx

\* 2. Check parameter bounds (safety_wrapper.py:84-91)
CheckParameterBounds(ctx) ==
    IF ctx.raised THEN ctx
    ELSE LET r == ApplyParameterBounds(ctx.cur.parameters)
         IN  IF r.modified
             THEN Record([ctx EXCEPT
                            !.cur.parameters = r.bounded,
                            !.orig.parameters =
                                IF ctx.aliased THEN r.bounded ELSE @],
                         "parameter_bounds")
             ELSE ctx

\* 3. Check change rate: _apply_rate_limiting (safety_wrapper.py:93-101, 144-164)
CheckRateLimit(ctx) ==
    IF ctx.raised THEN ctx
    ELSE IF ~IsNum(ctx.cur.magnitude) THEN Raise(ctx)
    ELSE IF ctx.cur.magnitude.v > max_change_rate
         THEN Record([ctx EXCEPT
                        !.cur.magnitude = Num(max_change_rate),
                        !.cur.explanation.rate_limited = TRUE,
                        !.orig.magnitude =
                            IF ctx.aliased THEN Num(max_change_rate) ELSE @,
                        !.orig.explanation.rate_limited =
                            IF ctx.aliased THEN TRUE ELSE @],
                     "rate_limit")
         ELSE ctx

\* Faulty variant: every action is taken for feasible
IsActionFeasibleAlways(decision, state) == "yes"

\* _is_action_feasible (safety_wrapper.py:166-192): "yes", "no" or "raise"
IsActionFeasible(decision, state) ==
    LET raw == IF state.difficulty.t = "absent"
               THEN Num(DefaultDifficulty) ELSE state.difficulty
        b   == bounds["difficulty"]
        max_diff == IF b.k \in {"range", "max"} THEN b.max ELSE DefaultMaxDiff
        min_diff == IF b.k \in {"range", "min"} THEN b.min ELSE DefaultMinDiff
    IN  IF state.missing = "task_state" THEN "raise"       \* None.get
        ELSE IF raw.t = "badstr" THEN "raise"              \* float("abc")
        ELSE IF decision.action = "maintain" \/ b.k = "none" THEN "yes"
        ELSE IF ~IsDict(b) THEN "raise"                    \* entry has no .get
        ELSE IF raw.t = "none" THEN "raise"                \* None >= max_diff
        ELSE IF decision.action = "increase"
             THEN (IF raw.v >= max_diff THEN "no" ELSE "yes")
             ELSE (IF raw.v <= min_diff THEN "no" ELSE "yes")

\* 4. Validate action feasibility (safety_wrapper.py:103-109)
CheckFeasible(ctx, state) ==
    IF ctx.raised THEN ctx
    ELSE LET f == IsActionFeasible(ctx.cur, state)
         IN  IF f = "raise" THEN Raise(ctx)
             ELSE IF f = "no"
             THEN Record([ctx EXCEPT
                            !.cur = [CreateSafeDefault EXCEPT
                                       !.explanation = Explanation("infeasible")],
                            !.aliased = FALSE],
                         "infeasible_action")
             ELSE ctx

\* Faulty variant: the rate is limited before the parameters are bounded
ValidateWithRateFirst(log, decision, state) ==
    LET ctx0 == [raised |-> FALSE, orig |-> decision, cur |-> decision,
                 aliased |-> TRUE, modified |-> FALSE, log |-> log,
                 recorded |-> <<>>]
    IN  IF ~enabled THEN ctx0
        ELSE CheckFeasible(
               CheckParameterBounds(CheckRateLimit(CheckConfidence(ctx0))),
               state)

\* Faulty variant: the enabled flag is not looked at
ValidateWithAlwaysOn(log, decision, state) ==
    LET ctx0 == [raised |-> FALSE, orig |-> decision, cur |-> decision,
                 aliased |-> TRUE, modified |-> FALSE, log |-> log,
                 recorded |-> <<>>]
    IN  CheckFeasible(
          CheckRateLimit(CheckParameterBounds(CheckConfidence(ctx0))),
          state)

\* validate_decision (safety_wrapper.py:52-114) of a validator whose
\* violation log is log
ValidateWith(log, decision, state) ==
    LET ctx0 == [raised |-> FALSE, orig |-> decision, cur |-> decision,
                 aliased |-> TRUE, modified |-> FALSE, log |-> log,
                 recorded |-> <<>>]
    IN  IF ~enabled THEN ctx0
        ELSE CheckFeasible(
               CheckRateLimit(CheckParameterBounds(CheckConfidence(ctx0))),
               state)

ValidateDecision(decision, state) ==
    ValidateWith(violation_log, decision, state)

(***************************************************************************)
(* Decision modules (engine-visible part)                                  *)
(***************************************************************************)
ModuleTypes == {"rule_based", "fuzzy", "rl"}

\* A module instance.  One record shape serves the three classes; a class
\* ignores the fields of the others.
\*   inst                 identity of the instance (two instances alive at the
\*                        same time differ in it)
\*   performance_history  rolling window (all three classes)
\*   has_last             _last_decision is set (RL: last_state, last_action too)
\*   save_path            RL: save_path, set by save_checkpoint (<<>> is None)
NoModule ==
    [kind |-> "none", inst |-> 0,
     success_threshold |-> 0, failure_threshold |-> 0,
     increase_step |-> 0, decrease_step |-> 0,
     step_size |-> 0, epsilon |-> 0, epsilon_decay |-> 0, epsilon_min |-> 0,
     performance_history |-> <<>>, has_last |-> FALSE, save_path |-> <<>>]

\* __init__ of the three classes (the engine passes module_id only)
NewModule(kind, inst) ==
    [NoModule EXCEPT
       !.kind = kind, !.inst = inst,
       !.success_threshold = DefaultSuccessThreshold,
       !.failure_threshold = DefaultFailureThreshold,
       !.increase_step = DefaultIncreaseStep,
       !.decrease_step = DefaultDecreaseStep,
       !.step_size = DefaultStepSize,
       !.epsilon = DefaultEpsilon,
       !.epsilon_decay = EpsilonDecay,
       !.epsilon_min = EpsilonMin]

Min(a, b) == IF a < b THEN a ELSE b
Max(a, b) == IF a > b THEN a ELSE b
Abs(a) == IF a < 0 THEN 0 - a ELSE a

\* Python's true division of fixed-point numbers, rounded toward zero
Quot(a, b) ==
    IF (a >= 0) = (b > 0) THEN Abs(a) \div Abs(b) ELSE 0 - (Abs(a) \div Abs(b))

RECURSIVE Sum(_)
Sum(seq) == IF seq = <<>> THEN 0 ELSE seq[1].v + Sum(Tail(seq))

\* Faulty variant: nothing is ever dropped from the window
PushUnbounded(history, x, window) == Append(history, x)

\* append, then pop(0) when longer than the window
Push(history, x, window) ==
    LET h == Append(history, x)
    IN  IF Len(h) > window THEN Tail(h) ELSE h

AllNum(seq) == \A i \in 1..Len(seq) : IsNum(seq[i])

\* module.initialize(config, patient_profile): the initialised module, or
\* NoModule when initialize returns False.
\*   RuleBasedModule.initialize              rule_based.py:48-76
\*   FuzzyLogicModule.initialize             fuzzy_logic.py:316-326
\*   ReinforcementLearningModule.initialize  reinforcement_learning.py:87-91
ModuleInitialize(m, cfg, profile) ==
    CASE m.kind = "rule_based" ->
           LET c == [m EXCEPT !.success_threshold = cfg.success_threshold,
                              !.failure_threshold = cfg.failure_threshold,
                              !.increase_step = cfg.increase_step,
                              !.decrease_step = cfg.decrease_step]
               b == profile.baseline_performance
           IN  IF b.t \in {"absent", "none"} THEN c
               ELSE IF ~IsNum(b) THEN NoModule      \* baseline + 0.2 raises
               ELSE [c EXCEPT
                       !.success_threshold = Min(SuccessCeiling, b.v + BaselineMargin),
                       !.failure_threshold = Max(FailureFloor, b.v - BaselineMargin)]
      [] m.kind = "fuzzy" ->
           IF profile.step_size.t = "absent" THEN m
           ELSE [m EXCEPT !.step_size = profile.step_size.v]
      [] OTHER -> m

\* metrics.get('accuracy', 0.5) and metrics.get('success_rate', accuracy)
Accuracy(state) ==
    IF state.accuracy.t = "absent" THEN Num(DefaultAccuracy) ELSE state.accuracy
SuccessRate(state) ==
    IF state.success_rate.t = "absent" THEN Accuracy(state) ELSE state.success_rate
\* task_state.get('difficulty', 0.5)
CurrentDifficulty(state) ==
    IF state.difficulty.t = "absent" THEN Num(DefaultDifficulty) ELSE state.difficulty

ModuleExplanation == Explanation("module")

\* A module's compute_adaptation returns [raised, decision, module]: module is
\* the instance afterwards (its history is pushed before anything can raise).
Computed(raised, decision, m) ==
    [raised |-> raised, decision |-> decision, module |-> m]

\* RuleBasedModule.compute_adaptation (rule_based.py:78-147)
RuleBasedCompute(m, state) ==
    LET h   == Push(m.performance_history, SuccessRate(state), HistoryWindow)
        m1  == [m EXCEPT !.performance_history = h]
        avg == Quot(Sum(h), Len(h))
        cd  == CurrentDifficulty(state)
        act == IF avg >= m.success_threshold THEN "increase"
               ELSE IF avg <= m.failure_threshold THEN "decrease"
               ELSE "maintain"
        mag == IF act = "increase" THEN m.increase_step
               ELSE IF act = "decrease" THEN m.decrease_step ELSE 0
        divisor == IF act = "increase" THEN One - m.success_threshold
                   ELSE IF act = "decrease" THEN m.failure_threshold ELSE 1
        conf == IF act = "increase"
                THEN Min(One, Quot((avg - m.success_threshold) * One, divisor))
                ELSE IF act = "decrease"
                THEN Min(One, Quot((m.failure_threshold - avg) * One, divisor))
                ELSE MaintainConfidence
        newd == IF act = "increase" THEN Num(Min(One, cd.v + mag))
                ELSE IF act = "decrease" THEN Num(Max(0, cd.v - mag))
                ELSE cd
    IN  IF ~AllNum(h) THEN Computed(TRUE, CreateSafeDefault, m1)       \* sum()
        ELSE IF divisor = 0 THEN Computed(TRUE, CreateSafeDefault, m1) \* x / 0.0
        ELSE IF ~IsNum(cd) /\ act # "maintain"
             THEN Computed(TRUE, CreateSafeDefault, m1)                \* str + float
        ELSE IF ~IsNum(cd)                      \* f"{current_difficulty:.2f}"
             THEN Computed(TRUE, CreateSafeDefault, [m1 EXCEPT !.has_last = TRUE])
        ELSE Computed(FALSE,
                      Decision(act, Num(mag),
                               [n \in ParamNames |->
                                  IF n = "difficulty" THEN newd ELSE Num(avg)],
                               Num(conf), ModuleExplanation),
                      [m1 EXCEPT !.has_last = TRUE])

\* FuzzyLogicModule._trapezoid_membership (fuzzy_logic.py:77-102)
TrapezoidMembership(x, params) ==
    LET a == params[1]
        b == params[2]
        c == params[3]
        d == params[4]
    IN  IF x <= a \/ x >= d THEN 0
        ELSE IF a < x /\ x < b THEN Quot((x - a) * One, b - a)
        ELSE IF b <= x /\ x <= c THEN One
        ELSE Quot((d - x) * One, d - c)

\* Faulty variant: LOW falls from 0.1 and is gone at 0.4
PerfLowParamsNarrow == <<0, 0, 100, 400>>

\* _setup_membership_functions (fuzzy_logic.py:64-66)
PerfLowParams == <<0, 0, 300, 500>>
PerfMediumParams == <<300, 500, 500, 700>>
PerfHighParams == <<500, 700, 1000, 1000>>

\* _fuzzify_performance (fuzzy_logic.py:104-118)
FuzzifyPerformance(performance) ==
    [low |-> TrapezoidMembership(performance, PerfLowParams),
     medium |-> TrapezoidMembership(performance, PerfMediumParams),
     high |-> TrapezoidMembership(performance, PerfHighParams)]

\* _apply_fuzzy_rules and _defuzzify (fuzzy_logic.py:120-169): singleton
\* centres -0.1, 0.0, +0.1
Defuzzify(fz) ==
    LET numerator == fz.low * (0 - 100) + fz.medium * 0 + fz.high * 100
        denominator == fz.low + fz.medium + fz.high
    IN  IF denominator = 0 THEN 0 ELSE Quot(numerator, denominator)

\* FuzzyLogicModule.compute_adaptation (fuzzy_logic.py:171-280)
FuzzyCompute(m, state) ==
    LET acc == Accuracy(state)
        sr  == SuccessRate(state)
        \* error_rate defaults to 1 - accuracy, reaction_time to 1.0
        er  == IF state.error_rate.t = "absent" THEN Num(One - acc.v)
               ELSE state.error_rate
        rt  == state.reaction_time
        reaction_score == IF rt.t = "absent" THEN DefaultReactionScore
                          ELSE Max(0, One - Quot(rt.v, 2))
        perf == Quot(400 * acc.v + 300 * sr.v + 200 * (One - er.v)
                     + 100 * reaction_score, One)
        h   == Push(m.performance_history, Num(perf), FuzzyMaxHistory)
        m1  == [m EXCEPT !.performance_history = h]
        smoothed == IF Len(h) > 1 THEN Quot(Sum(h), Len(h)) ELSE perf
        fz  == FuzzifyPerformance(smoothed)
        change == Quot(Defuzzify(fz) * m.step_size, One)
        cd  == CurrentDifficulty(state)
        act == IF Abs(change) < MaintainThreshold THEN "maintain"
               ELSE IF change > 0 THEN "increase" ELSE "decrease"
        conf == Max(fz.low, Max(fz.medium, fz.high))
    IN  IF ~IsNum(acc) \/ ~IsNum(sr) \/ ~IsNum(er)
           \/ (rt.t # "absent" /\ ~IsNum(rt))
        THEN Computed(TRUE, CreateSafeDefault, m)
        ELSE IF ~IsNum(cd) THEN Computed(TRUE, CreateSafeDefault, m1)
        ELSE Computed(FALSE,
                      Decision(act, Num(Abs(change)),
                               [n \in ParamNames |->
                                  IF n = "difficulty"
                                  THEN Num(Max(0, Min(One, cd.v + change)))
                                  ELSE Absent],
                               Num(conf), ModuleExplanation),
                      [m1 EXCEPT !.has_last = TRUE])

\* Faulty variant: the decay has no floor
DecayEpsilonUnfloored(m) == Quot(m.epsilon * m.epsilon_decay, One)

\* epsilon after _update_q_value: max(epsilon_min, epsilon * epsilon_decay)
\* (reinforcement_learning.py:241-242)
DecayEpsilon(m) == Max(m.epsilon_min, Quot(m.epsilon * m.epsilon_decay, One))

\* ReinforcementLearningModule.compute_adaptation
\* (reinforcement_learning.py:244-306) as the engine sees it: with
\* epsilon >= epsilon_min > 0 the epsilon-greedy choice can return every
\* action, so the action is the argument choice; the Q-table is not part of
\* this record.
RLCompute(m, state, choice) ==
    LET acc == Accuracy(state)
        cd  == CurrentDifficulty(state)
        learned == IF m.has_last
                   THEN [m EXCEPT
                           !.performance_history =
                               Push(@, acc, RLMaxHistory),
                           !.epsilon = DecayEpsilon(m)]
                   ELSE m
        mag == IF choice = "maintain" THEN 0 ELSE RLMagnitude
    IN  IF ~IsNum(acc) \/ ~IsNum(cd) THEN Computed(TRUE, CreateSafeDefault, m)
        ELSE Computed(FALSE,
                      Decision(choice, Num(mag), NoParams,
                               Num(One - learned.epsilon), ModuleExplanation),
                      [learned EXCEPT !.has_last = TRUE])

\* active_module.compute_adaptation(state)
ModuleCompute(m, state, choice) ==
    CASE m.kind = "rule_based" -> RuleBasedCompute(m, state)
      [] m.kind = "fuzzy" -> FuzzyCompute(m, state)
      [] OTHER -> RLCompute(m, state, choice)

\* module.reset()  (rule_based.py:192-196, fuzzy_logic.py:358-362,
\* reinforcement_learning.py:409-413)
ModuleReset(m) ==
    [m EXCEPT !.performance_history = <<>>, !.has_last = FALSE]

\* Faulty variant: saving a checkpoint also resets the module
ModuleSaveCheckpointResets(m, path) == ModuleReset(m)

\* module.save_checkpoint(path): the instance afterwards.  Only the RL module
\* keeps the path (reinforcement_learning.py:462-470); the files themselves
\* are outside this model.
ModuleSaveCheckpoint(m, path) ==
    IF m.kind = "rl" THEN [m EXCEPT !.save_path = path] ELSE m

\* Faulty variant: every state is taken for valid
ValidateStateAccepts(state) == TRUE

\* AdaptationModule.validate_state (base_module.py:141-147)
ValidateState(state) == state.missing = "none"

(***************************************************************************)
(* AdaptationEngine                                                        *)
(***************************************************************************)
SessionIds == {"s1", "s2"}

\* task_config is kept as its 'safety_bounds' entry
NoSession ==
    [live |-> FALSE, module_type |-> "none",
     patient_profile |-> [baseline_performance |-> Absent, step_size |-> Absent],
     task_config |-> [n \in ParamNames |-> NoBound],
     adaptation_count |-> 0]

Live == {sid \in SessionIds : sessions[sid].live}

\* EventBus.publish (event_bus.py:59-76): the event is put on the queue and
\* counted
Publish(events) == events + 1

\* A module constructed while active_module is alive is another object
NewInst == IF active_module.inst = 1 THEN 2 ELSE 1

NoState == StateVector("none", Absent, Absent, Absent)

\* What the last call was given and what it returned (state and
\* module_decision are kept for direct calls of the validator only).
\*   result  "true", "false", "none" (no decision), "decision", "status",
\*           "raised" (an exception reached the caller)
\*   reason  the path taken through the operation
NoCall ==
    [op |-> "none", result |-> "none", reason |-> "none", state |-> NoState,
     module_decision |-> CreateSafeDefault, decision |-> CreateSafeDefault,
     modified |-> FALSE, recorded |-> <<>>, published |-> <<>>]

Called(op, result, reason) ==
    [NoCall EXCEPT !.op = op, !.result = result, !.reason = reason]

\* A rule_based configuration; a key left out takes the default of
\* config.get (rule_based.py:56-59)
RuleConfig(st, ft, inc, dec) ==
    [success_threshold |-> st, failure_threshold |-> ft,
     increase_step |-> inc, decrease_step |-> dec, given |-> TRUE]

EmptyConfig ==
    RuleConfig(DefaultSuccessThreshold, DefaultFailureThreshold,
               DefaultIncreaseStep, DefaultDecreaseStep)

\* self.config.get('module_configs', {}).get(module_type, {})
ModuleConfig(mtype) ==
    IF mtype = "rule_based" THEN config.rule_based ELSE EmptyConfig

\* Faulty variant: the registry is not consulted
RegisteredAlways(mtype) == TRUE

\* module_type in self.module_registry (adaptation_engine.py:91, 261)
Registered(mtype) == mtype \in module_registry

\* Faulty variant: the running flag and the active module are not looked at
EngineReadyAlways == TRUE

\* compute_adaptation goes on only when the engine is running and has an
\* active module (adaptation_engine.py:153)
EngineReady == is_running /\ active_module # NoModule

\* Faulty variant: ending the last session leaves the flag alone
RunningAfterEndKeeps(remaining) == is_running

\* end_session: "if not self.sessions: self.is_running = False"
\* (adaptation_engine.py:327-328)
RunningAfterEnd(remaining) ==
    IF \A x \in SessionIds : ~remaining[x].live THEN FALSE ELSE is_running

\* register_module (adaptation_engine.py:56-68)
RegisterModule(name, is_module) ==
    /\ IF is_module
       THEN /\ module_registry' = module_registry \cup {name}
            /\ call' = Called("register_module", "true", "registered")
       ELSE /\ module_registry' = module_registry
            /\ call' = Called("register_module", "raised", "TypeError")
    /\ UNCHANGED <<safetyVars, config, sessions, active_module, is_running,
                   stats, events_published>>

\* initialize_session (adaptation_engine.py:70-134)
InitializeSession(sid, mtype, profile, safety_bounds) ==
    LET module == ModuleInitialize(NewModule(mtype, NewInst),
                                   ModuleConfig(mtype), profile)
    IN  /\ IF ~Registered(mtype)
           THEN /\ call' = Called("initialize_session", "false",
                                  "unregistered")
                /\ UNCHANGED <<safetyVars, engineVars>>
           ELSE IF module = NoModule
           THEN /\ call' = Called("initialize_session", "false",
                                  "init_failed")
                /\ UNCHANGED <<safetyVars, engineVars>>
           ELSE /\ active_module' = module
                /\ bounds' = safety_bounds
                /\ sessions' = [sessions EXCEPT ![sid] =
                                  [live |-> TRUE, module_type |-> mtype,
                                   patient_profile |-> profile,
                                   task_config |-> safety_bounds,
                                   adaptation_count |-> 0]]
                /\ is_running' = TRUE
                /\ events_published' = Publish(events_published)
                /\ call' = [Called("initialize_session", "true", "ok")
                              EXCEPT !.published = <<"session.initialized">>]
                /\ UNCHANGED <<enabled, max_change_rate, min_confidence,
                               violation_log, config, module_registry, stats>>
        /\ events_published' <= MaxEvents

\* Faulty variant: the adaptation is not counted
UpdateStatsSkipped(s) == s

\* _update_stats (adaptation_engine.py:347-354)
UpdateStats(s) == [s EXCEPT !.total_adaptations = @ + 1]

\* compute_adaptation (adaptation_engine.py:136-198).  choice is the action
\* the RL module's random draw settles on.
ComputeAdaptation(sid, state, choice) ==
    LET r == ModuleCompute(active_module, state, choice)
        v == ValidateDecision(r.decision, state)
        c == Called("compute_adaptation", "none", "none")
    IN  /\ Len(violation_log) < MaxLogLen
        /\ Len(active_module.performance_history) < MaxLearning
        /\ active_module.epsilon = 0
              \/ active_module.epsilon > DefaultEpsilon - MaxLearning
        /\ IF ~EngineReady
           THEN /\ call' = [c EXCEPT !.reason = "not_running"]
                /\ UNCHANGED <<safetyVars, engineVars>>
           ELSE IF ~ValidateState(state)
           THEN /\ call' = [c EXCEPT !.reason = "invalid_state"]
                /\ UNCHANGED <<safetyVars, engineVars>>
           ELSE IF r.raised
           THEN /\ call' = [c EXCEPT !.reason = "module_raised"]
                /\ active_module' = r.module
                /\ UNCHANGED <<safetyVars, config, module_registry, sessions,
                               is_running, stats, events_published>>
           ELSE IF v.raised
           THEN /\ call' = [c EXCEPT !.reason = "validator_raised",
                                     !.recorded = v.recorded]
                /\ active_module' = r.module
                /\ violation_log' = v.log
                /\ UNCHANGED <<enabled, max_change_rate, min_confidence, bounds,
                               config, module_registry, sessions, is_running,
                               stats, events_published>>
           ELSE /\ call' = [c EXCEPT !.result = "decision", !.reason = "ok",
                                     !.decision = v.cur,
                                     !.modified = v.modified,
                                     !.recorded = v.recorded,
                                     !.published = <<"adaptation.computed">>]
                /\ active_module' = r.module
                /\ violation_log' = v.log
                /\ stats' = UpdateStats([stats EXCEPT
                               !.safety_interventions =
                                   IF v.modified THEN @ + 1 ELSE @])
                /\ sessions' = IF sessions[sid].live
                               THEN [sessions EXCEPT
                                       ![sid].adaptation_count = @ + 1]
                               ELSE sessions
                /\ events_published' = Publish(events_published)
                /\ UNCHANGED <<enabled, max_change_rate, min_confidence, bounds,
                               config, module_registry, is_running>>
        /\ events_published' <= MaxEvents

\* update_feedback (adaptation_engine.py:200-226) with a numeric reward
UpdateFeedback(sid) ==
    /\ IF active_module = NoModule
       THEN /\ call' = Called("update_feedback", "false", "no_module")
            /\ UNCHANGED events_published
       ELSE /\ call' = [Called("update_feedback", "true", "ok")
                          EXCEPT !.published = <<"feedback.received">>]
            /\ events_published' = Publish(events_published)
    /\ UNCHANGED <<safetyVars, config, module_registry, sessions, active_module,
                   is_running, stats>>
    /\ events_published' <= MaxEvents

\* checkpoint_path of swap_module and end_session
CheckpointPath(sid, mtype, suffix) == <<sid, mtype, suffix>>

\* swap_module (adaptation_engine.py:228-300).  new_config is a rule_based
\* configuration, or NoConfig for None.
NoConfig == [success_threshold |-> 0, failure_threshold |-> 0,
             increase_step |-> 0, decrease_step |-> 0, given |-> FALSE]

\* Faulty variant: the swap starts the adaptation counters afresh
StatsAfterSwapResets ==
    [total_adaptations |-> 0, safety_interventions |-> 0,
     module_swaps |-> stats.module_swaps + 1]

\* self.stats['module_swaps'] += 1 (adaptation_engine.py:287)
StatsAfterSwap == [stats EXCEPT !.module_swaps = @ + 1]

SwapModule(sid, new_type, new_config) ==
    LET saved == IF active_module = NoModule THEN active_module
                 ELSE ModuleSaveCheckpoint(
                        active_module,
                        CheckpointPath(sid, sessions[sid].module_type, "ckpt"))
        cfg == IF new_config = NoConfig THEN ModuleConfig(new_type)
               ELSE new_config
        new_module == ModuleInitialize(NewModule(new_type, NewInst), cfg,
                                       sessions[sid].patient_profile)
    IN  /\ IF ~sessions[sid].live
           THEN /\ call' = Called("swap_module", "false",
                                  "unknown_session")
                /\ UNCHANGED <<safetyVars, engineVars>>
           ELSE IF ~Registered(new_type)
           THEN /\ call' = Called("swap_module", "false",
                                  "unregistered")
                /\ active_module' = saved
                /\ UNCHANGED <<safetyVars, config, module_registry, sessions,
                               is_running, stats, events_published>>
           ELSE IF new_module = NoModule
           THEN /\ call' = Called("swap_module", "false",
                                  "init_failed")
                /\ active_module' = saved
                /\ UNCHANGED <<safetyVars, config, module_registry, sessions,
                               is_running, stats, events_published>>
           ELSE /\ call' = [Called("swap_module", "true", "ok")
                              EXCEPT !.published = <<"module.swapped">>]
                /\ active_module' = new_module
                /\ sessions' = [sessions EXCEPT ![sid].module_type = new_type]
                /\ stats' = StatsAfterSwap
                /\ events_published' = Publish(events_published)
                /\ UNCHANGED <<safetyVars, config, module_registry, is_running>>
        /\ events_published' <= MaxEvents

\* end_session (adaptation_engine.py:302-335)
EndSession(sid) ==
    LET cleaned == IF active_module = NoModule THEN active_module
                   ELSE ModuleReset(ModuleSaveCheckpoint(
                          active_module,
                          CheckpointPath(sid, sessions[sid].module_type, "final")))
        remaining == [sessions EXCEPT ![sid] = NoSession]
        empty == \A x \in SessionIds : ~remaining[x].live
    IN  /\ IF ~sessions[sid].live
           THEN /\ call' = Called("end_session", "false",
                                  "unknown_session")
                /\ UNCHANGED <<safetyVars, engineVars>>
           ELSE /\ call' = [Called("end_session", "true",
                                   IF empty THEN "last" ELSE "others_live")
                              EXCEPT !.published = <<"session.ended">>]
                /\ sessions' = remaining
                /\ events_published' = Publish(events_published)
                /\ is_running' = RunningAfterEnd(remaining)
                /\ active_module' = IF empty THEN NoModule ELSE cleaned
                /\ UNCHANGED <<safetyVars, config, module_registry, stats>>
        /\ events_published' <= MaxEvents

\* What get_status hands back (adaptation_engine.py:339-345): the running
\* flag, the active module's metadata, len(self.sessions), the statistics
\* dictionary and the registry's keys.  get_metadata of the three modules
\* only reads fields of the module.
Status ==
    [is_running |-> is_running,
     active_module |-> active_module,
     active_sessions |-> Cardinality(Live),
     statistics |-> stats,
     registered_modules |-> module_registry]

\* Faulty variant: asking for the status is counted as an adaptation
GetStatusCounted ==
    /\ call' = Called("get_status", "status", "ok")
    /\ stats' = [stats EXCEPT !.total_adaptations = @ + 1]
    /\ UNCHANGED <<safetyVars, config, module_registry, sessions,
                   active_module, is_running, events_published>>

\* get_status (adaptation_engine.py:337-345)
GetStatus ==
    /\ call' = Called("get_status", "status", "ok")
    /\ UNCHANGED <<safetyVars, engineVars>>

\* shutdown (adaptation_engine.py:356-365): end_session for every session,
\* then is_running = False
Shutdown ==
    /\ call' = [Called("shutdown", "none",
                       IF Live = {} THEN "idle" ELSE "ended_all")
                  EXCEPT !.published =
                      [i \in 1..Cardinality(Live) |-> "session.ended"]]
    /\ sessions' = [sid \in SessionIds |-> NoSession]
    /\ events_published' = events_published + Cardinality(Live)
    /\ is_running' = FALSE
    /\ active_module' = NoModule
    /\ UNCHANGED <<safetyVars, config, module_registry, stats>>
    /\ events_published' <= MaxEvents

\* EventBus.clear_stats (event_bus.py:127-133)
ClearStats ==
    /\ events_published # 0
    /\ events_published' = 0
    /\ call' = Called("clear_stats", "none", "ok")
    /\ UNCHANGED <<safetyVars, config, module_registry, sessions, active_module,
                   is_running, stats>>

\* SafetyWrapper.clear_violations (safety_wrapper.py:224-226)
ClearViolations ==
    /\ violation_log # <<>>
    /\ violation_log' = <<>>
    /\ call' = Called("clear_violations", "none", "ok")
    /\ UNCHANGED <<enabled, max_change_rate, min_confidence, bounds, engineVars>>

\* SafetyWrapper.set_bounds (safety_wrapper.py:41-50)
SetBounds(b) ==
    /\ bounds' = b
    /\ call' = Called("set_bounds", "none", "ok")
    /\ UNCHANGED <<enabled, max_change_rate, min_confidence, violation_log,
                   engineVars>>

\* the violation types and get_violation_stats (safety_wrapper.py:216-222);
\* a type that was never logged has no key, here count 0
ViolationTypes ==
    {"low_confidence", "parameter_bounds", "rate_limit", "infeasible_action"}

GetViolationStats ==
    [t \in ViolationTypes |->
        Cardinality({i \in 1..Len(violation_log) : violation_log[i].type = t})]

\* A direct call of SafetyWrapper.validate_decision (safety_wrapper.py:52-114)
ValidateCall(decision, state) ==
    LET v == ValidateDecision(decision, state)
        c == [Called("validate_decision", "none", "none")
                EXCEPT !.state = state, !.module_decision = decision,
                       !.recorded = v.recorded]
    IN  /\ violation_log' = v.log
        /\ call' = IF v.raised
                   THEN [c EXCEPT !.result = "raised", !.reason = "raised"]
                   ELSE [c EXCEPT !.result = "decision", !.reason = "ok",
                                  !.decision = v.cur, !.modified = v.modified]
        /\ UNCHANGED <<enabled, max_change_rate, min_confidence, bounds,
                       engineVars>>

\* the same call, explored while the log is short
Validate(decision, state) ==
    /\ Len(violation_log) < MaxLogLen
    /\ ValidateCall(decision, state)

(***************************************************************************)
(* Inputs                                                                  *)
(***************************************************************************)
SafetyConfig(e, rate, conf) ==
    [enabled |-> e, max_change_rate |-> rate, min_confidence |-> conf]

\* config['safety']: the defaults, a disabled wrapper, a negative rate
SafetyConfigs ==
    {SafetyConfig(TRUE, DefaultMaxChangeRate, DefaultMinConfidence),
     SafetyConfig(FALSE, DefaultMaxChangeRate, DefaultMinConfidence),
     SafetyConfig(TRUE, 0 - 100, DefaultMinConfidence)}

\* config['module_configs']['rule_based']: nothing given, and steps the
\* module takes as they come
RuleConfigs == {EmptyConfig, RuleConfig(800, 400, 0 - 100, 1500)}

\* states the modules are given: high, low and default accuracy, in the
\* middle and at the top of the difficulty range
ModuleStates ==
    {StateVector("none", a, Absent, d) :
        a \in {Num(950), Num(200), Absent}, d \in {Num(500), Num(1000)}}

Bounds(d, p) ==
    [n \in ParamNames |-> IF n = "difficulty" THEN d ELSE p]

\* task_config['safety_bounds'] / set_bounds arguments
BoundsConfigs ==
    {Bounds(NoBound, NoBound),
     Bounds(Range(0, 1000), NoBound),
     Bounds(Range(200, 800), Range(0, 500)),
     Bounds(Range(800, 200), NoBound),
     Bounds(MinOnly(200), NoBound),
     Bounds(Scalar, NoBound)}

Profile(b, s) == [baseline_performance |-> b, step_size |-> s]

PatientProfiles ==
    {Profile(Absent, Absent), Profile(Num(500), Absent),
     Profile(BadStr, Absent), Profile(Absent, Num(20000))}

Difficulties == {Absent, Num(0), Num(500), Num(1000), NumStr(1000), BadStr, None}

\* states handed to the validator: every kind of task_state['difficulty'],
\* and a state whose task_state is None
ValidatorStates ==
    {StateVector("none", Absent, Absent, d) : d \in Difficulties}
        \cup {StateVector("task_state", Absent, Absent, Absent)}

Params(d, p) == [n \in ParamNames |-> IF n = "difficulty" THEN d ELSE p]

ModuleDecision(a, m, c, p) == Decision(a, m, p, c, ModuleExplanation)

\* decisions handed to the validator: in range, over the rate and the
\* bounds, at and below the confidence threshold, negative, non-numeric
\* parameter, and None where a number belongs
Decisions ==
    {ModuleDecision("increase", Num(100), Num(900), Params(Num(500), Absent)),
     ModuleDecision("decrease", Num(100), Num(900), Params(Num(500), Absent)),
     ModuleDecision("maintain", Num(0), Num(900), NoParams),
     ModuleDecision("increase", Num(500), Num(900), Params(Num(1200), Num(700))),
     ModuleDecision("decrease", Num(150), Num(300), Params(Num(100), Absent)),
     ModuleDecision("increase", Num(100), Num(100), NoParams),
     ModuleDecision("decrease", Num(500), Num(100), Params(Num(1200), Absent)),
     ModuleDecision("increase", Num(0 - 100), Num(900), Params(NumStr(1200), Absent)),
     ModuleDecision("increase", Num(100), None, NoParams),
     ModuleDecision("decrease", None, Num(900), NoParams)}

\* states the engine is given: a valid one, one whose difficulty no module
\* can add to, one without task_state
EngineStates ==
    {StateVector("none", Num(950), Absent, Num(1000)),
     StateVector("none", Num(950), Absent, BadStr),
     StateVector("task_state", Num(950), Absent, Absent)}

\* the configurations an engine is built with: (safety, rule_based)
EngineConfigs ==
    {<<SafetyConfig(TRUE, DefaultMaxChangeRate, DefaultMinConfidence), EmptyConfig>>}

\* the module types registered with the engine in Spec; "fuzzy" and
\* "unknown" are asked for without being registered
EngineTypes == {"rule_based", "rl"}

\* what initialize_session is asked for: (module_type, patient_profile,
\* safety_bounds); a profile whose baseline is no number makes the rule_based
\* module's initialize return False, a bound entry that is no map makes the
\* validator raise
InitRequests ==
    {<<"rule_based", Profile(Absent, Absent), Bounds(Range(0, 1000), NoBound)>>,
     <<"rule_based", Profile(BadStr, Absent), Bounds(Range(0, 1000), NoBound)>>,
     <<"rl", Profile(Absent, Absent), Bounds(Scalar, NoBound)>>,
     <<"rl", Profile(BadStr, Absent), Bounds(Range(0, 1000), NoBound)>>,
     <<"unknown", Profile(Absent, Absent), Bounds(Range(0, 1000), NoBound)>>}

\* the outcomes of the active module's random draw: only the RL module draws
Choices == IF active_module.kind = "rl" THEN Actions ELSE {"maintain"}

(***************************************************************************)
(* Calls in flight and the event bus                                       *)
(***************************************************************************)
\* A compute_adaptation call that has evaluated self.active_module, called
\* its compute_adaptation and is suspended in it (adaptation_engine.py:166).
\*   point     where the module's compute is suspended: "entry" (it has not
\*             touched the instance yet) or "exit" (its decision is made)
\*   detached  the instance the call holds is no longer self.active_module
\*   module    the detached instance (NoModule while it is the active one)
\*   decision  the decision made, when suspended at "exit"
NoInflight ==
    [pending |-> FALSE, sid |-> "none", state |-> NoState, point |-> "none",
     detached |-> FALSE, module |-> NoModule, decision |-> CreateSafeDefault,
     args |-> <<>>]

\* Faulty variant: the resumed call works on whatever module is active now
InflightTargetActive == active_module

\* The instance the suspended call holds: "self.active_module" was evaluated
\* when the call was made (adaptation_engine.py:166), so a later assignment
\* to self.active_module does not reach it.
InflightTarget ==
    IF inflight.detached THEN inflight.module ELSE active_module

\* compute_adaptation up to its suspension inside the module's compute
\* (adaptation_engine.py:153-166)
ComputeBegin(sid, state, point, choice) ==
    LET r == ModuleCompute(active_module, state, choice)
    IN  /\ ~inflight.pending
        /\ EngineReady /\ ValidateState(state)
        /\ Len(violation_log) < MaxLogLen
        /\ Len(active_module.performance_history) < MaxLearning
        /\ point = "exit" => ~r.raised
        /\ inflight' = [NoInflight EXCEPT
                          !.pending = TRUE, !.sid = sid, !.state = state,
                          !.point = point,
                          !.decision = IF point = "exit" THEN r.decision ELSE @]
        /\ active_module' = IF point = "exit" THEN r.module ELSE active_module
        /\ call' = Called("compute_adaptation", "suspended", "in_module")
        /\ UNCHANGED <<safetyVars, config, module_registry, sessions,
                       is_running, stats, events_published, bus, unit>>

\* What an engine operation running meanwhile does to the suspended call:
\* when it replaces self.active_module, the call keeps the old instance;
\* swap_module has reset that instance (adaptation_engine.py:278-283),
\* initialize_session has left it alone (line 107).
WhileSuspended(op) ==
    /\ op
    /\ inflight' =
          IF inflight.pending /\ ~inflight.detached
                /\ active_module'.inst # active_module.inst
          THEN [inflight EXCEPT
                  !.detached = TRUE,
                  !.module =
                      IF call'.op = "swap_module"
                      THEN ModuleReset(ModuleSaveCheckpoint(
                             active_module,
                             CheckpointPath(inflight.sid,
                                            sessions[inflight.sid].module_type,
                                            "ckpt")))
                      ELSE active_module]
          ELSE inflight
    /\ UNCHANGED <<bus, unit>>

\* the rest of compute_adaptation once the module's compute resumes
\* (adaptation_engine.py:166-194)
ComputeFinish(choice) ==
    LET sid == inflight.sid
        state == inflight.state
        m == InflightTarget
        r == IF inflight.point = "exit"
             THEN Computed(FALSE, inflight.decision, m)
             ELSE ModuleCompute(m, state, choice)
        v == ValidateDecision(r.decision, state)
        c == [Called("compute_adaptation", "none", "none")
                EXCEPT !.state = state, !.module_decision = r.decision]
    IN  /\ inflight.pending
        /\ inflight' = NoInflight
        /\ active_module' = IF inflight.detached THEN active_module ELSE r.module
        /\ IF r.raised
           THEN /\ call' = [c EXCEPT !.reason = "module_raised"]
                /\ UNCHANGED <<safetyVars, sessions, stats, events_published>>
           ELSE IF v.raised
           THEN /\ call' = [c EXCEPT !.reason = "validator_raised",
                                     !.recorded = v.recorded]
                /\ violation_log' = v.log
                /\ UNCHANGED <<enabled, max_change_rate, min_confidence, bounds,
                               sessions, stats, events_published>>
           ELSE /\ call' = [c EXCEPT !.result = "decision", !.reason = "resumed",
                                     !.decision = v.cur,
                                     !.modified = v.modified,
                                     !.recorded = v.recorded,
                                     !.published = <<"adaptation.computed">>]
                /\ violation_log' = v.log
                /\ stats' = UpdateStats([stats EXCEPT
                               !.safety_interventions =
                                   IF v.modified THEN @ + 1 ELSE @])
                /\ sessions' = IF sessions[sid].live
                               THEN [sessions EXCEPT
                                       ![sid].adaptation_count = @ + 1]
                               ELSE sessions
                /\ events_published' = Publish(events_published)
                /\ UNCHANGED <<enabled, max_change_rate, min_confidence, bounds>>
        /\ events_published' <= MaxEvents
        /\ UNCHANGED <<config, module_registry, is_running, bus, unit>>

\* initialize_session up to its suspension inside module.initialize
\* (adaptation_engine.py:89-101); the module is one whose coroutine yields
\* to the event loop there
InitBegin(sid, mtype, profile, safety_bounds) ==
    /\ ~inflight.pending
    /\ Registered(mtype)
    /\ inflight' = [NoInflight EXCEPT
                      !.pending = TRUE, !.sid = sid, !.point = "initialize",
                      !.module = ModuleInitialize(NewModule(mtype, 3),
                                                  ModuleConfig(mtype), profile),
                      !.args = <<mtype, profile, safety_bounds>>]
    /\ call' = Called("initialize_session", "suspended", "in_module")
    /\ UNCHANGED <<safetyVars, engineVars, bus, unit>>

\* the rest of initialize_session (adaptation_engine.py:101-121)
InitFinish ==
    LET sid == inflight.sid
        module == inflight.module
    IN  /\ inflight.pending /\ inflight.point = "initialize"
        /\ inflight' = NoInflight
        /\ IF module = NoModule
           THEN /\ call' = Called("initialize_session", "false", "init_failed")
                /\ UNCHANGED <<safetyVars, engineVars>>
           ELSE /\ active_module' = module
                /\ bounds' = inflight.args[3]
                /\ sessions' = [sessions EXCEPT ![sid] =
                                  [live |-> TRUE, module_type |-> inflight.args[1],
                                   patient_profile |-> inflight.args[2],
                                   task_config |-> inflight.args[3],
                                   adaptation_count |-> 0]]
                /\ is_running' = TRUE
                /\ events_published' = Publish(events_published)
                /\ call' = [Called("initialize_session", "true", "resumed")
                              EXCEPT !.published = <<"session.initialized">>]
                /\ UNCHANGED <<enabled, max_change_rate, min_confidence,
                               violation_log, config, module_registry, stats>>
        /\ events_published' <= MaxEvents
        /\ UNCHANGED <<bus, unit>>

\* swap_module up to its suspension inside new_module.initialize
\* (adaptation_engine.py:247-270): the session is known, the old module has
\* saved its checkpoint, the new type is registered
SwapBegin(sid, new_type) ==
    LET saved == IF active_module = NoModule THEN active_module
                 ELSE ModuleSaveCheckpoint(
                        active_module,
                        CheckpointPath(sid, sessions[sid].module_type, "ckpt"))
    IN  /\ ~inflight.pending
        /\ sessions[sid].live
        /\ Registered(new_type)
        /\ active_module' = saved
        /\ inflight' = [NoInflight EXCEPT
                          !.pending = TRUE, !.sid = sid,
                          !.point = "swap_initialize",
                          !.module = ModuleInitialize(
                                       NewModule(new_type, 3),
                                       ModuleConfig(new_type),
                                       sessions[sid].patient_profile),
                          !.args = <<new_type>>]
        /\ call' = Called("swap_module", "suspended", "in_module")
        /\ UNCHANGED <<safetyVars, config, module_registry, sessions,
                       is_running, stats, events_published, bus, unit>>

\* the rest of swap_module (adaptation_engine.py:270-296).  The new module
\* is assigned to self.active_module (line 276) before
\* self.sessions[session_id] is written (line 282): when the session has
\* been removed meanwhile that write raises KeyError and the call returns
\* False with the new module in place.
SwapFinish ==
    LET sid == inflight.sid
        new_module == inflight.module
    IN  /\ inflight.pending /\ inflight.point = "swap_initialize"
        /\ inflight' = NoInflight
        /\ IF new_module = NoModule
           THEN /\ call' = Called("swap_module", "false", "init_failed")
                /\ UNCHANGED <<safetyVars, engineVars>>
           ELSE IF ~sessions[sid].live
           THEN /\ call' = Called("swap_module", "false", "session_gone")
                /\ active_module' = new_module
                /\ UNCHANGED <<safetyVars, config, module_registry, sessions,
                               is_running, stats, events_published>>
           ELSE /\ call' = [Called("swap_module", "true", "resumed")
                              EXCEPT !.published = <<"module.swapped">>]
                /\ active_module' = new_module
                /\ sessions' = [sessions EXCEPT
                                  ![sid].module_type = inflight.args[1]]
                /\ stats' = StatsAfterSwap
                /\ events_published' = Publish(events_published)
                /\ UNCHANGED <<safetyVars, config, module_registry, is_running>>
        /\ events_published' <= MaxEvents
        /\ UNCHANGED <<bus, unit>>

\* end_session up to its suspension inside the active module's
\* save_checkpoint (adaptation_engine.py:304-312)
EndBegin(sid) ==
    /\ ~inflight.pending
    /\ sessions[sid].live
    /\ active_module # NoModule
    /\ active_module' = ModuleSaveCheckpoint(
                          active_module,
                          CheckpointPath(sid, sessions[sid].module_type, "final"))
    /\ inflight' = [NoInflight EXCEPT
                      !.pending = TRUE, !.sid = sid, !.point = "end_save"]
    /\ call' = Called("end_session", "suspended", "in_module")
    /\ UNCHANGED <<safetyVars, config, module_registry, sessions,
                   is_running, stats, events_published, bus, unit>>

\* the rest of end_session (adaptation_engine.py:313-335).
\* self.active_module is read again for reset (line 313): None raises;
\* self.sessions.pop raises KeyError when the session is gone (line 316).
EndFinish ==
    LET sid == inflight.sid
        remaining == [sessions EXCEPT ![sid] = NoSession]
        empty == \A x \in SessionIds : ~remaining[x].live
    IN  /\ inflight.pending /\ inflight.point = "end_save"
        /\ inflight' = NoInflight
        /\ IF active_module = NoModule
           THEN /\ call' = Called("end_session", "false", "no_module")
                /\ UNCHANGED <<safetyVars, engineVars>>
           ELSE IF ~sessions[sid].live
           THEN /\ call' = Called("end_session", "false", "session_gone")
                /\ active_module' = ModuleReset(active_module)
                /\ UNCHANGED <<safetyVars, config, module_registry, sessions,
                               is_running, stats, events_published>>
           ELSE /\ call' = [Called("end_session", "true",
                                   IF empty THEN "last" ELSE "others_live")
                              EXCEPT !.published = <<"session.ended">>]
                /\ sessions' = remaining
                /\ events_published' = Publish(events_published)
                /\ is_running' = RunningAfterEnd(remaining)
                /\ active_module' = IF empty THEN NoModule
                                    ELSE ModuleReset(active_module)
                /\ UNCHANGED <<safetyVars, config, module_registry, stats>>
        /\ events_published' <= MaxEvents
        /\ UNCHANGED <<bus, unit>>

\* the topics and callbacks of the bus under study.  h_ok returns, h_fail
\* raises in its body, h_badsig is an async function that takes no argument.
\* Events are numbered 1, 2, ... in the order publish accepted them.
Topics == {"adaptation.computed", "session.ended"}
Handlers == {"h_ok", "h_fail", "h_badsig"}
NoEvent == [topic |-> "none", id |-> 0]

\* EventBus.__init__ (event_bus.py:24-34).  task is the position of the
\* start_processing coroutine, held the event it took from the queue last,
\* tasks the coroutines handed to gather that have not run yet, targeted
\* the callbacks subscribed to the topic of held when _process_event read
\* the list, delivered those of them whose coroutine ran, stopped whether
\* stop() has been called on a bus that has a consuming task.
NewBus ==
    [subscribers |-> [t \in Topics |-> <<>>], queue |-> <<>>,
     is_running |-> FALSE, events_processed |-> 0, errors |-> 0,
     accepted |-> 0, task |-> "none", held |-> NoEvent, tasks |-> <<>>,
     targeted |-> {}, delivered |-> {}, stopped |-> FALSE]

RemoveAt(seq, i) == SubSeq(seq, 1, i - 1) \o SubSeq(seq, i + 1, Len(seq))

\* list.remove: drops the first occurrence
RemoveFirst(seq, x) ==
    LET first == CHOOSE i \in 1..Len(seq) :
                    seq[i] = x /\ \A j \in 1..(i - 1) : seq[j] # x
    IN  RemoveAt(seq, first)

RECURSIVE CountSubscriptions(_)
CountSubscriptions(T) ==
    IF T = {} THEN 0
    ELSE LET t == CHOOSE x \in T : TRUE
         IN  Len(bus.subscribers[t]) + CountSubscriptions(T \ {t})

Subscriptions == CountSubscriptions(Topics)

BusOnly == UNCHANGED <<safetyVars, config, module_registry, sessions,
                       active_module, is_running, stats, call, inflight, unit>>

\* EventBus.subscribe (event_bus.py:36-48) with an async callback
Subscribe(event_type, callback) ==
    /\ Subscriptions < MaxSubscribers
    /\ bus' = [bus EXCEPT !.subscribers[event_type] = Append(@, callback)]
    /\ UNCHANGED events_published
    /\ BusOnly

\* EventBus.unsubscribe (event_bus.py:50-57)
Unsubscribe(event_type, callback) ==
    /\ \E i \in 1..Len(bus.subscribers[event_type]) :
            bus.subscribers[event_type][i] = callback
    /\ bus' = [bus EXCEPT !.subscribers[event_type] = RemoveFirst(@, callback)]
    /\ UNCHANGED events_published
    /\ BusOnly

\* EventBus.publish (event_bus.py:59-76): the queue is unbounded, put never
\* waits
PublishEvent(event_type) ==
    /\ bus.accepted < MaxBusEvents
    /\ bus' = [bus EXCEPT
                 !.queue = Append(@, [topic |-> event_type, id |-> bus.accepted + 1]),
                 !.accepted = @ + 1]
    /\ events_published' = Publish(events_published)
    /\ BusOnly

\* a caller hands start_processing to the event loop (asyncio.create_task):
\* the coroutine exists, none of its statements has run
StartProcessing ==
    /\ bus.task = "none"
    /\ bus' = [bus EXCEPT !.task = "created"]
    /\ UNCHANGED events_published
    /\ BusOnly

\* EventBus.stop (event_bus.py:119-121)
Stop ==
    /\ bus.is_running \/ (bus.task # "none" /\ ~bus.stopped)
    /\ bus' = [bus EXCEPT !.is_running = FALSE,
                          !.stopped = @ \/ bus.task # "none"]
    /\ UNCHANGED events_published
    /\ BusOnly

\* start_processing, first statements (event_bus.py:80-81)
TaskBegin ==
    /\ bus.task = "created"
    /\ bus' = [bus EXCEPT !.is_running = TRUE, !.task = "check"]

\* the loop test (event_bus.py:83) and the return after the loop (line 100)
TaskCheck ==
    /\ bus.task = "check"
    /\ bus' = [bus EXCEPT !.task = IF bus.is_running THEN "poll" ELSE "exited"]

\* a consumer that takes the newest event of the queue
TaskPollGetNewest ==
    /\ bus.task = "poll" /\ bus.queue # <<>>
    /\ bus' = [bus EXCEPT !.held = bus.queue[Len(bus.queue)],
                          !.queue = SubSeq(@, 1, Len(@) - 1),
                          !.targeted = {}, !.delivered = {},
                          !.task = "dispatch"]

\* wait_for(queue.get(), timeout=0.1) returns an event (event_bus.py:86-89)
TaskPollGet ==
    /\ bus.task = "poll" /\ bus.queue # <<>>
    /\ bus' = [bus EXCEPT !.held = Head(bus.queue), !.queue = Tail(@),
                          !.targeted = {}, !.delivered = {},
                          !.task = "dispatch"]

\* wait_for times out on an empty queue (event_bus.py:94-95)
TaskPollTimeout ==
    /\ bus.task = "poll" /\ bus.queue = <<>>
    /\ bus' = [bus EXCEPT !.task = "check"]

\* _process_event builds the list of coroutines (event_bus.py:104-112).
\* Calling a callback that takes no argument raises TypeError inside the
\* list comprehension: the coroutines already made are dropped, and
\* start_processing catches the exception (event_bus.py:96-98).
TaskDispatch ==
    LET subs == bus.subscribers[bus.held.topic]
        target == {subs[i] : i \in 1..Len(subs)}
        bad == \E i \in 1..Len(subs) : subs[i] = "h_badsig"
    IN  /\ bus.task = "dispatch"
        /\ bus' = IF bad
                  THEN [bus EXCEPT !.targeted = target, !.errors = @ + 1,
                                   !.task = "check"]
                  ELSE [bus EXCEPT !.targeted = target, !.tasks = subs,
                                   !.task = "gather"]

\* one coroutine handed to gather runs to its end; with
\* return_exceptions=True the exception of h_fail is collected
\* (event_bus.py:114-115)
HandlerRun(i) ==
    /\ bus.task = "gather" /\ i \in 1..Len(bus.tasks)
    /\ bus' = [bus EXCEPT !.delivered = @ \cup {bus.tasks[i]},
                          !.tasks = RemoveAt(@, i)]

\* gather returns, the event is counted (event_bus.py:91-92)
TaskGathered ==
    /\ bus.task = "gather" /\ bus.tasks = <<>>
    /\ bus' = [bus EXCEPT !.events_processed = @ + 1, !.task = "check"]

\* the steps of the consuming task and of the coroutines it awaits
TaskStep ==
    /\ \/ TaskBegin
       \/ TaskCheck
       \/ TaskPollGet
       \/ TaskPollTimeout
       \/ TaskDispatch
       \/ \E i \in 1..MaxSubscribers : HandlerRun(i)
       \/ TaskGathered
    /\ UNCHANGED events_published
    /\ BusOnly

\* ---- ReinforcementLearningModule in detail (reinforcement_learning.py) ----
\* Q-values are kept in millionths (One * One is 1.0); rewards and the
\* hyperparameters in thousandths.
NoRLState == <<>>                              \* last_state is None
NoQTable == [s \in {} |-> 0]                   \* q_table = {}
ZeroRow == [a \in Actions |-> 0]               \* a new row of the Q-table

\* what __init__ sets beside the fields of the module record; discrete and
\* trend hold what the last direct call of _discretize_state and of
\* _calculate_trend_bin returned, updates counts the calls of
\* _update_q_value in the run
NewRL(perf_bins, diff_bins) ==
    [perf_bins |-> perf_bins, diff_bins |-> diff_bins, q_table |-> NoQTable,
     last_state |-> NoRLState, last_action |-> "none",
     discrete |-> NoRLState, trend |-> 0 - 1, updates |-> 0]

NoRL == NewRL(0, 0)

\* the paths checkpoints are written to and read from: one with a
\* directory part and one without
CheckpointPaths == {[dir |-> "checkpoints", name |-> "m.json"],
                    [dir |-> "", name |-> "m.json"]}

\* a member of the JSON object: not there, there with a value that is no
\* object, or there with the value x
NoMember == [t |-> "absent", v |-> <<>>]
BadMember == [t |-> "bad", v |-> <<>>]
Member(x) == [t |-> "given", v |-> x]

\* What a file holds.  json is "missing" (no such file), "garbage" (not
\* JSON, or JSON that is no object) or "object"; for an object,
\* performance_history is a list, config the rule-based thresholds and
\* steps, step_size and epsilon are Absent or a number, q_table is the rows
\* in file order, each a key and the values by action name.
File(json, history, cfg, step_size, rows, epsilon) ==
    [json |-> json, performance_history |-> history, config |-> cfg,
     step_size |-> step_size, q_table |-> rows, epsilon |-> epsilon]

MissingFile == File("missing", NoMember, NoMember, Absent, NoMember, Absent)
GarbageFile == File("garbage", NoMember, NoMember, Absent, NoMember, Absent)

\* no file exists
NoFiles == [path \in CheckpointPaths |-> MissingFile]

\* the last operation on the files: "none", "put" (a file written by
\* something else), "save", "load" or "fresh_load", with the value the
\* module's call returned
NoIO == [op |-> "none", path |-> [dir |-> "", name |-> ""], returned |-> FALSE]

\* what save_checkpoint was given to save: the Q-table, epsilon and the
\* history of the module at the call
Saved(m, q) ==
    [q_table |-> q, epsilon |-> m.epsilon,
     performance_history |-> m.performance_history]

(***************************************************************************)
(* A module on its own                                                     *)
(***************************************************************************)
\* A module that a caller constructs, initializes and calls directly, as the
\* tests under src/service/tests do.
\*   module    the instance (NoModule before it is constructed)
\*   ready     initialize has returned True
\*   called    compute_adaptation has been called since then
\*   state, raised, decision   the last call's argument and outcome
\*   x, fz, raw, change   the last performance handed to the fuzzy module's
\*             inference functions directly, and what they returned
NoMembership == [low |-> 0, medium |-> 0, high |-> 0]

NewUnit ==
    [module |-> NoModule, ready |-> FALSE, called |-> FALSE, state |-> NoState,
     raised |-> FALSE, decision |-> CreateSafeDefault,
     x |-> Absent, fz |-> NoMembership, raw |-> 0, change |-> 0,
     rl |-> NoRL, rounds |-> 0, explored |-> 0,
     files |-> NoFiles, io |-> NoIO, saved |-> Saved(NoModule, NoQTable)]

EngineOnly == UNCHANGED <<safetyVars, engineVars, call, inflight, bus>>

\* RuleBasedModule("..."), FuzzyLogicModule("..."),
\* ReinforcementLearningModule("...")
UnitNew(kind) ==
    /\ unit.module.kind = "none"
    /\ unit' = [NewUnit EXCEPT !.module = NewModule(kind, 1)]
    /\ EngineOnly

\* await module.initialize(config, patient_profile) returns True
UnitInitialize(cfg, profile) ==
    LET m == ModuleInitialize(unit.module, cfg, profile)
    IN  /\ unit.module.kind # "none" /\ ~unit.ready
        /\ m # NoModule
        /\ unit' = [unit EXCEPT !.module = m, !.ready = TRUE]
        /\ EngineOnly

\* await module.compute_adaptation(state)
UnitCompute(state, choice) ==
    LET r == ModuleCompute(unit.module, state, choice)
    IN  /\ unit.ready
        /\ unit' = [unit EXCEPT !.module = r.module, !.called = TRUE,
                                !.state = state, !.raised = r.raised,
                                !.decision = r.decision]
        /\ EngineOnly

\* module._fuzzify_performance(x), then _apply_fuzzy_rules and _defuzzify on
\* the result, then the scaling by step_size (fuzzy_logic.py:231-241)
UnitInfer(x) ==
    LET fz == FuzzifyPerformance(x)
    IN  /\ unit.module.kind = "fuzzy"
        /\ unit' = [unit EXCEPT !.x = Num(x), !.fz = fz, !.raw = Defuzzify(fz),
                                !.change = Quot(Defuzzify(fz) * unit.module.step_size,
                                                One)]
        /\ EngineOnly

\* the performance compute_adaptation fuzzified in the call that has just
\* returned: the mean of the history when it holds more than one value
\* (fuzzy_logic.py:211-215)
FuzzySmoothed(m) ==
    LET h == m.performance_history
    IN  IF Len(h) > 1 THEN Quot(Sum(h), Len(h)) ELSE h[Len(h)].v

\* max(fuzzy_perf, key=fuzzy_perf.get): the first of low, medium, high that
\* has the largest membership (fuzzy_logic.py:249)
DominantTerm(fz) ==
    IF fz.low >= fz.medium /\ fz.low >= fz.high THEN "low"
    ELSE IF fz.medium >= fz.high THEN "medium"
    ELSE "high"

\* _calculate_trend_bin: the mean of the last three values against the mean
\* of the values before them ([0.5] when there are at most three values);
\* the two means are compared exactly, by cross-multiplication
CalculateTrendBin(h) ==
    IF Len(h) < 2 THEN 1
    ELSE LET recent == SubSeq(h, Max(1, Len(h) - 2), Len(h))
             older  == IF Len(h) > 3 THEN SubSeq(h, 1, Len(h) - 3)
                       ELSE <<Num(TrendNeutral)>>
             r == Sum(recent) * Len(older)
             o == Sum(older) * Len(recent)
             margin == TrendMargin * Len(recent) * Len(older)
         IN  IF r > o + margin THEN 2
             ELSE IF r < o - margin THEN 0
             ELSE 1

\* Faulty variant: the bin is not clamped to the last bin
BinUnclamped(x, bins) == Quot(x * bins, One)

\* min(int(x * bins), bins - 1)
Bin(x, bins) == Min(Quot(x * bins, One), bins - 1)

\* _discretize_state with performance_history = h
DiscretizeState(rl, h, state) ==
    <<Bin(Accuracy(state).v, rl.perf_bins),
      Bin(CurrentDifficulty(state).v, rl.diff_bins),
      CalculateTrendBin(h)>>

\* the table after _get_q_value(s, a) or _set_q_value(s, a, v) has made sure
\* that s has a row
WithRow(q, s) ==
    [t \in DOMAIN q \cup {s} |-> IF t \in DOMAIN q THEN q[t] ELSE ZeroRow]

\* what _get_q_value(s, a) returns
GetQValue(q, s, a) == WithRow(q, s)[s][a]

\* max(q_values, key=q_values.get): the first of DECREASE, MAINTAIN,
\* INCREASE (the order of the row's keys) with the largest value
BestAction(row) ==
    IF row["decrease"] >= row["maintain"] /\ row["decrease"] >= row["increase"]
    THEN "decrease"
    ELSE IF row["maintain"] >= row["increase"] THEN "maintain"
    ELSE "increase"

\* _select_action: explore says np.random.random() < epsilon, choice is what
\* np.random.choice returns
SelectAction(q, s, explore, choice) ==
    IF explore THEN choice
    ELSE IF s \notin DOMAIN q THEN "maintain"
    ELSE BestAction(q[s])

\* Faulty variant: below 0.4 the bonus goes to INCREASE
CalculateRewardSwapped(h, performance, action) ==
    LET improvement == IF Len(h) >= 2
                       THEN Quot((performance - h[Len(h) - 1].v) * 500, One)
                       ELSE 0
        flow == IF 500 <= performance /\ performance <= 700 THEN 200 ELSE 0
        stability == IF /\ 600 <= performance /\ performance <= 800
                        /\ action = "maintain"
                     THEN 100 ELSE 0
        appropriate == IF performance < 400 /\ action = "increase" THEN 150
                       ELSE IF performance > 800 /\ action = "increase" THEN 150
                       ELSE 0
        extremes == IF performance < 300 \/ performance > 900 THEN 100 ELSE 0
    IN  improvement + flow + stability + appropriate - extremes

\* _calculate_reward, h being the history after the append
CalculateReward(h, performance, action) ==
    LET improvement == IF Len(h) >= 2
                       THEN Quot((performance - h[Len(h) - 1].v) * 500, One)
                       ELSE 0
        flow == IF 500 <= performance /\ performance <= 700 THEN 200 ELSE 0
        stability == IF /\ 600 <= performance /\ performance <= 800
                        /\ action = "maintain"
                     THEN 100 ELSE 0
        appropriate == IF performance < 400 /\ action = "decrease" THEN 150
                       ELSE IF performance > 800 /\ action = "increase" THEN 150
                       ELSE 0
        extremes == IF performance < 300 \/ performance > 900 THEN 100 ELSE 0
    IN  improvement + flow + stability + appropriate - extremes

\* the value _update_q_value writes: Q + alpha * (r + gamma * max Q' - Q)
NewQValue(q, s, a, reward, next_state) ==
    LET current_q == GetQValue(q, s, a)
        next_q(b) == GetQValue(q, next_state, b)
        max_next_q == Max(next_q("decrease"),
                          Max(next_q("maintain"), next_q("increase")))
    IN  current_q
          + Quot(Alpha * (reward * One + Quot(Gamma * max_next_q, One)
                            - current_q), One)

\* _update_q_value: the table afterwards (the decay of epsilon is in
\* RLCompute)
UpdateQValue(q, s, a, reward, next_state) ==
    [WithRow(WithRow(q, s), next_state) EXCEPT
       ![s][a] = NewQValue(q, s, a, reward, next_state)]

\* whether compute_adaptation learns: last_state and last_action are set
Learns(rl) == rl.last_state # NoRLState /\ rl.last_action # "none"

\* the table when compute_adaptation selects the action
LearnedTable(rl, h, state) ==
    LET acc == Accuracy(state)
        s == DiscretizeState(rl, h, state)
        h1 == Push(h, acc, RLMaxHistory)
    IN  IF Learns(rl)
        THEN UpdateQValue(rl.q_table, rl.last_state, rl.last_action,
                          CalculateReward(h1, acc.v, rl.last_action), s)
        ELSE rl.q_table

\* Faulty variant: the action is selected on the table as it was before the
\* update
SelectBeforeUpdate(rl, h, state, explore, choice) ==
    SelectAction(rl.q_table, DiscretizeState(rl, h, state), explore, choice)

\* the action compute_adaptation selects: on the table after the update
SelectAfterUpdate(rl, h, state, explore, choice) ==
    SelectAction(LearnedTable(rl, h, state), DiscretizeState(rl, h, state),
                 explore, choice)

\* compute_adaptation, the Q-learning part: discretize (on the history as it
\* is before this call's performance is appended), learn, select, read the
\* row of the state for the decision's q_values, remember state and action
RLStep(rl, h, state, explore, choice) ==
    LET s == DiscretizeState(rl, h, state)
    IN  [rl EXCEPT !.q_table = WithRow(LearnedTable(rl, h, state), s),
                   !.last_state = s,
                   !.last_action = SelectAfterUpdate(rl, h, state, explore,
                                                     choice),
                   !.updates = IF Learns(rl) THEN @ + 1 ELSE @]

\* ---- Checkpoint files of the modules ----
\* os.path.dirname(path): the directory part, "" when there is none
DirName(path) == path.dir

\* str(state) as a key of the JSON object, and eval(state_key)
Str(s) == [str |-> s]
Eval(k) == k.str

\* the rows _save_q_table writes for the states of S; the order of the rows
\* is the order of insertion, which no loader depends on when every row is
\* well-formed
RECURSIVE SerializeRows(_, _)
SerializeRows(q, S) ==
    IF S = {} THEN <<>>
    ELSE LET s == CHOOSE x \in S : TRUE
         IN  <<[key |-> Str(s), row |-> [n \in Actions |-> q[s][n]]]>>
               \o SerializeRows(q, S \ {s})

\* _load_q_table's loop over the rows: AdaptationAction(k) raises on a name
\* that is no action, after the rows before it have been stored
RECURSIVE LoadRows(_, _)
LoadRows(q, rows) ==
    IF rows = <<>> THEN [q_table |-> q, raised |-> FALSE]
    ELSE LET r == Head(rows)
         IN  IF DOMAIN r.row \subseteq Actions
             THEN LoadRows([t \in DOMAIN q \cup {Eval(r.key)} |->
                              IF t = Eval(r.key) THEN r.row ELSE q[t]],
                           Tail(rows))
             ELSE [q_table |-> q, raised |-> TRUE]

\* A checkpoint call returns [returned, module, q_table, file]: the value
\* returned, the module and its Q-table afterwards and the file afterwards.
Checkpointed(returned, m, q, file) ==
    [returned |-> returned, module |-> m, q_table |-> q, file |-> file]

\* ReinforcementLearningModule.save_checkpoint and _save_q_table:
\* os.makedirs(os.path.dirname(save_path)) raises when the path has no
\* directory part, before the file is opened
RLSaveCheckpoint(m, q, path, file) ==
    IF DirName(path) = ""
    THEN Checkpointed(FALSE, [m EXCEPT !.save_path = path], q, file)
    ELSE Checkpointed(TRUE, [m EXCEPT !.save_path = path], q,
                      File("object", Member(m.performance_history), NoMember,
                           Absent, Member(SerializeRows(q, DOMAIN q)),
                           Num(m.epsilon)))

\* ReinforcementLearningModule.load_checkpoint and _load_q_table: every
\* failure is caught inside _load_q_table, so the call returns True
RLLoadCheckpoint(m, q, path, file) ==
    LET m1 == [m EXCEPT !.save_path = path]
        loaded == LoadRows(q, file.q_table.v)
    IN  IF file.json # "object" \/ file.q_table.t = "bad"
        THEN Checkpointed(TRUE, m1, q, file)
        ELSE IF loaded.raised
        THEN Checkpointed(TRUE, m1, loaded.q_table, file)
        ELSE Checkpointed(TRUE,
                 [m1 EXCEPT
                    !.epsilon = IF file.epsilon = Absent THEN @
                                ELSE file.epsilon.v,
                    !.performance_history =
                        file.performance_history.v],
                 loaded.q_table, file)

\* RuleBasedModule.load_checkpoint (rule_based.py:233-254): the history is
\* assigned before config.get can raise
RuleBasedLoadCheckpoint(m, q, path, file) ==
    LET m1 == [m EXCEPT !.performance_history = file.performance_history.v]
    IN  IF file.json # "object" THEN Checkpointed(FALSE, m, q, file)
        ELSE IF file.config.t = "bad" THEN Checkpointed(FALSE, m1, q, file)
        ELSE IF file.config.t = "absent" THEN Checkpointed(TRUE, m1, q, file)
        ELSE Checkpointed(TRUE,
                 [m1 EXCEPT
                    !.success_threshold = file.config.v.success_threshold,
                    !.failure_threshold = file.config.v.failure_threshold,
                    !.increase_step = file.config.v.increase_step,
                    !.decrease_step = file.config.v.decrease_step],
                 q, file)

\* FuzzyLogicModule.load_checkpoint (fuzzy_logic.py:381-393)
FuzzyLoadCheckpoint(m, q, path, file) ==
    IF file.json # "object" THEN Checkpointed(FALSE, m, q, file)
    ELSE Checkpointed(TRUE,
             [m EXCEPT
                !.performance_history = file.performance_history.v,
                !.step_size = IF file.step_size = Absent THEN DefaultStepSize
                              ELSE file.step_size.v],
             q, file)

\* module.load_checkpoint(path)
ModuleLoadCheckpoint(m, q, path, file) ==
    CASE m.kind = "rule_based" -> RuleBasedLoadCheckpoint(m, q, path, file)
      [] m.kind = "fuzzy" -> FuzzyLoadCheckpoint(m, q, path, file)
      [] OTHER -> RLLoadCheckpoint(m, q, path, file)

\* a file written by something else than the module
EnvPutFile(path, file) ==
    /\ unit.module.kind # "none"
    /\ unit' = [unit EXCEPT !.files[path] = file,
                            !.io = [op |-> "put", path |-> path,
                                    returned |-> FALSE]]
    /\ EngineOnly

\* await module.save_checkpoint(path) on the RL module
UnitSaveCheckpoint(path) ==
    LET r == RLSaveCheckpoint(unit.module, unit.rl.q_table, path,
                              unit.files[path])
    IN  /\ unit.module.kind = "rl"
        /\ unit' = [unit EXCEPT
                      !.module = r.module, !.files[path] = r.file,
                      !.io = [op |-> "save", path |-> path,
                              returned |-> r.returned],
                      !.saved = Saved(unit.module, unit.rl.q_table)]
        /\ EngineOnly

\* await module.load_checkpoint(path)
UnitLoadCheckpoint(path) ==
    LET r == ModuleLoadCheckpoint(unit.module, unit.rl.q_table, path,
                                  unit.files[path])
    IN  /\ unit.module.kind # "none"
        /\ unit' = [unit EXCEPT
                      !.module = r.module, !.rl.q_table = r.q_table,
                      !.io = [op |-> "load", path |-> path,
                              returned |-> r.returned]]
        /\ EngineOnly

\* fresh = ReinforcementLearningModule("..."); await
\* fresh.load_checkpoint(path): the unit is the fresh module from now on
UnitLoadFresh(path) ==
    LET r == RLLoadCheckpoint(NewModule("rl", 2), NoQTable, path,
                              unit.files[path])
    IN  /\ unit.module.kind = "rl"
        /\ unit' = [unit EXCEPT
                      !.module = r.module, !.ready = FALSE, !.called = FALSE,
                      !.rl = [NewRL(DefaultPerfBins, DefaultDiffBins) EXCEPT
                                !.q_table = r.q_table,
                                !.updates = unit.rl.updates],
                      !.io = [op |-> "fresh_load", path |-> path,
                              returned |-> r.returned]]
        /\ EngineOnly

\* ReinforcementLearningModule("...", {'perf_bins': ..., 'diff_bins': ...})
UnitNewRL(perf_bins, diff_bins) ==
    /\ unit.module.kind = "none"
    /\ unit' = [NewUnit EXCEPT !.module = NewModule("rl", 1),
                               !.rl = NewRL(perf_bins, diff_bins)]
    /\ EngineOnly

\* ReinforcementLearningModule("...", {'exploration_rate': ...,
\* 'epsilon_decay': ..., 'epsilon_min': ...})
UnitNewRLWith(exploration_rate, epsilon_decay, epsilon_min) ==
    /\ unit.module.kind = "none"
    /\ unit' = [NewUnit EXCEPT
                  !.module = [NewModule("rl", 1) EXCEPT
                                !.epsilon = exploration_rate,
                                !.epsilon_decay = epsilon_decay,
                                !.epsilon_min = epsilon_min],
                  !.rl = NewRL(DefaultPerfBins, DefaultDiffBins)]
    /\ EngineOnly

\* await module.update(reward_signal): the reward goes straight into the
\* Q-value of the last (state, action) pair (reinforcement_learning.py:415-422)
UnitRLUpdate(reward_signal) ==
    LET rl == unit.rl
        new_q == GetQValue(rl.q_table, rl.last_state, rl.last_action)
                   + Alpha * reward_signal
    IN  /\ unit.module.kind = "rl" /\ Learns(rl)
        /\ Abs(new_q) <= 2 * Alpha * One
        /\ unit' = [unit EXCEPT
                      !.rl.q_table = [WithRow(rl.q_table, rl.last_state) EXCEPT
                                        ![rl.last_state][rl.last_action] = new_q]]
        /\ EngineOnly

\* module.performance_history = [...], as the tests of the trend set it
UnitSetHistory(h) ==
    /\ unit.module.kind = "rl"
    /\ unit' = [unit EXCEPT !.module.performance_history = h]
    /\ EngineOnly

\* module._discretize_state(state)
UnitDiscretize(state) ==
    /\ unit.module.kind = "rl"
    /\ unit' = [unit EXCEPT
                  !.state = state,
                  !.rl.discrete = DiscretizeState(unit.rl,
                                    unit.module.performance_history, state)]
    /\ EngineOnly

\* module._calculate_trend_bin()
UnitTrend ==
    /\ unit.module.kind = "rl"
    /\ unit' = [unit EXCEPT
                  !.rl.trend = CalculateTrendBin(unit.module.performance_history)]
    /\ EngineOnly

\* await module.compute_adaptation(state) on the RL module, with the two
\* random draws
UnitRLCompute(state, explore, choice) ==
    LET h == unit.module.performance_history
        rl == RLStep(unit.rl, h, state, explore, choice)
        r == RLCompute(unit.module, state, rl.last_action)
    IN  /\ unit.ready /\ unit.module.kind = "rl"
        /\ IsNum(Accuracy(state)) /\ IsNum(CurrentDifficulty(state))
        /\ Learns(unit.rl) => unit.rl.updates < MaxLearning
        /\ unit' = [unit EXCEPT !.module = r.module, !.called = TRUE,
                                !.state = state, !.raised = r.raised,
                                !.decision = r.decision, !.rl = rl]
        /\ EngineOnly

\* one round of test_learning_over_time: compute_adaptation on the state of
\* the round before; rounds and explored count the rounds and the rounds
\* whose random draw was an exploration
UnitRLRound(state, explore, choice) ==
    LET h == unit.module.performance_history
        rl == RLStep(unit.rl, h, state, explore, choice)
        r == RLCompute(unit.module, state, rl.last_action)
    IN  /\ unit.ready /\ unit.module.kind = "rl"
        /\ unit.rounds < LearningRounds
        /\ explore => unit.explored < MaxExplore
        /\ unit.called => state = unit.state
        /\ unit' = [unit EXCEPT !.module = r.module, !.called = TRUE,
                                !.state = state, !.raised = r.raised,
                                !.decision = r.decision, !.rl = rl,
                                !.rounds = @ + 1,
                                !.explored = IF explore THEN @ + 1 ELSE @]
        /\ EngineOnly

\* await module.reset() on the RL module: last_state, last_action and the
\* history are cleared, the Q-table and epsilon are kept
UnitRLReset ==
    /\ unit.ready /\ unit.module.kind = "rl"
    /\ unit' = [unit EXCEPT !.module = ModuleReset(@),
                            !.rl.last_state = NoRLState,
                            !.rl.last_action = "none"]
    /\ EngineOnly

(***************************************************************************)
(* Specifications                                                          *)
(***************************************************************************)
\* AdaptationEngine.__init__ (adaptation_engine.py:36-54) and
\* SafetyWrapper.__init__ (safety_wrapper.py:29-39)
Constructed(sc, rc) ==
    /\ enabled = sc.enabled
    /\ max_change_rate = sc.max_change_rate
    /\ min_confidence = sc.min_confidence
    /\ bounds = Bounds(NoBound, NoBound)
    /\ violation_log = <<>>
    /\ config = [rule_based |-> rc]
    /\ module_registry = {}
    /\ sessions = [sid \in SessionIds |-> NoSession]
    /\ active_module = NoModule
    /\ is_running = FALSE
    /\ stats = [total_adaptations |-> 0, safety_interventions |-> 0,
                module_swaps |-> 0]
    /\ events_published = 0
    /\ call = NoCall
    /\ inflight = NoInflight
    /\ bus = NewBus
    /\ unit = NewUnit

Init == \E c \in EngineConfigs : Constructed(c[1], c[2])

Next ==
    /\ UNCHANGED <<inflight, bus, unit>>
    /\ \/ \E name \in EngineTypes, ok \in BOOLEAN : RegisterModule(name, ok)
       \/ \E sid \in SessionIds, r \in InitRequests :
             InitializeSession(sid, r[1], r[2], r[3])
       \/ \E sid \in SessionIds, st \in EngineStates, choice \in Choices :
             ComputeAdaptation(sid, st, choice)
       \/ \E sid \in SessionIds : UpdateFeedback(sid)
       \/ \E sid \in SessionIds, mtype \in EngineTypes \cup {"unknown"},
             cfg \in {NoConfig} : SwapModule(sid, mtype, cfg)
       \/ \E sid \in SessionIds : EndSession(sid)
       \/ GetStatus
       \/ Shutdown
       \/ ClearViolations

Spec == Init /\ [][Next]_vars

\* The validator on its own: a SafetyWrapper built from any safety
\* configuration, given bounds and decisions directly
InitSafety == \E sc \in SafetyConfigs : Constructed(sc, EmptyConfig)

NextSafety ==
    /\ UNCHANGED <<inflight, bus, unit>>
    /\ \/ \E b \in BoundsConfigs : SetBounds(b)
       \/ \E d \in Decisions, st \in ValidatorStates : Validate(d, st)
       \/ ClearViolations

SpecSafety == InitSafety /\ [][NextSafety]_vars

\* An engine whose safety configuration has enabled = False, with the
\* validator also called directly
InitDisabled ==
    \E sc \in {c \in SafetyConfigs : ~c.enabled} : Constructed(sc, EmptyConfig)

\* the states of the direct calls: difficulty at either end of the bounds,
\* a difficulty that is no number, no task_state at all
DisabledStates ==
    {st \in ValidatorStates :
        \/ st.missing = "task_state"
        \/ st.difficulty \in {Num(0), Num(1000), BadStr}}

NextDisabled ==
    /\ UNCHANGED <<inflight, bus, unit>>
    /\ \/ \E name \in EngineTypes, ok \in BOOLEAN : RegisterModule(name, ok)
       \/ \E sid \in SessionIds, r \in InitRequests :
             InitializeSession(sid, r[1], r[2], r[3])
       \/ \E sid \in SessionIds, st \in EngineStates, choice \in Choices :
             ComputeAdaptation(sid, st, choice)
       \/ \E sid \in SessionIds : EndSession(sid)
       \/ SetBounds(Bounds(Range(200, 800), Range(0, 500)))
       \/ \E d \in Decisions, st \in DisabledStates : Validate(d, st)

SpecDisabled == InitDisabled /\ [][NextDisabled]_vars

\* The three built-in modules behind the engine: one session, the default
\* safety configuration, any rule_based configuration
InitModules ==
    \E rc \in RuleConfigs :
        Constructed(SafetyConfig(TRUE, DefaultMaxChangeRate, DefaultMinConfidence),
                    rc)

NextModules ==
    /\ UNCHANGED <<inflight, bus, unit>>
    /\ \/ \E name \in ModuleTypes : RegisterModule(name, TRUE)
       \/ \E mtype \in ModuleTypes, profile \in PatientProfiles :
             InitializeSession("s1", mtype, profile, Bounds(Range(0, 1000), NoBound))
       \/ \E st \in ModuleStates, choice \in Choices :
             ComputeAdaptation("s1", st, choice)
       \/ EndSession("s1")

SpecModules == InitModules /\ [][NextModules]_vars

\* Hot-swapping with history: sessions that have computed adaptations get
\* their module swapped; the bus statistics are cleared now and then
SwapRequests ==
    {<<"rule_based", Profile(Absent, Absent), Bounds(Range(0, 1000), NoBound)>>,
     <<"rl", Profile(Absent, Absent), Bounds(Range(0, 1000), NoBound)>>}

\* a state at the top of the difficulty range: an INCREASE is infeasible
SwapStates == {StateVector("none", Num(950), Absent, Num(1000))}

NextSwap ==
    /\ UNCHANGED <<inflight, bus, unit>>
    /\ stats.total_adaptations + stats.module_swaps < MaxSwapOps
    /\ \/ \E name \in EngineTypes : RegisterModule(name, TRUE)
       \/ \E sid \in SessionIds, r \in SwapRequests :
             InitializeSession(sid, r[1], r[2], r[3])
       \/ \E sid \in SessionIds, st \in SwapStates, choice \in Choices :
             ComputeAdaptation(sid, st, choice)
       \/ \E sid \in SessionIds, mtype \in EngineTypes \cup {"unknown"} :
             SwapModule(sid, mtype, NoConfig)
       \/ ClearStats

SpecSwap == Init /\ [][NextSwap]_vars

\* Hot-swapping under a suspended compute_adaptation: session s1 computes,
\* and while its call is suspended in the module the engine goes on
InflightPoints == {"entry", "exit"}

NextInflight ==
    /\ stats.total_adaptations + stats.module_swaps < MaxSwapOps
    /\ \/ /\ \E name \in EngineTypes : RegisterModule(name, TRUE)
          /\ UNCHANGED <<inflight, bus, unit>>
       \/ \E r \in SwapRequests :
             WhileSuspended(InitializeSession("s1", r[1], r[2], r[3]))
       \/ \E st \in SwapStates, point \in InflightPoints, choice \in Choices :
             ComputeBegin("s1", st, point, choice)
       \/ \E mtype \in EngineTypes :
             WhileSuspended(SwapModule("s1", mtype, NoConfig))
       \/ \E choice \in Actions : ComputeFinish(choice)
       \/ ClearStats /\ UNCHANGED <<inflight, bus, unit>>

SpecInflight == Init /\ [][NextInflight]_vars

\* Session operations interleaved at an await: one of initialize_session,
\* swap_module and end_session is suspended inside the module it awaits
\* while others run from start to end (the built-in modules never yield
\* inside these awaits; a registered module whose coroutines do is what is
\* explored)
SessionRequests ==
    {<<"rule_based", Profile(Absent, Absent), Bounds(Range(0, 1000), NoBound)>>,
     <<"rule_based", Profile(BadStr, Absent), Bounds(Range(0, 1000), NoBound)>>}

NextSessions ==
    \/ /\ UNCHANGED <<inflight, bus, unit>>
       /\ \/ RegisterModule("rule_based", TRUE)
          \/ \E sid \in SessionIds, r \in SessionRequests :
                InitializeSession(sid, r[1], r[2], r[3])
          \/ \E sid \in SessionIds : SwapModule(sid, "rule_based", NoConfig)
          \/ \E sid \in SessionIds : EndSession(sid)
    \/ \E sid \in SessionIds, r \in SessionRequests :
          InitBegin(sid, r[1], r[2], r[3])
    \/ InitFinish
    \/ \E sid \in SessionIds : SwapBegin(sid, "rule_based")
    \/ SwapFinish
    \/ \E sid \in SessionIds : EndBegin(sid)
    \/ EndFinish

SpecSessions == Init /\ [][NextSessions]_vars

\* The violation log up to and beyond its capacity: one validator with
\* bounds set is handed, over and over, a decision of too low confidence, one
\* over the bounds and the rate, and an infeasible one; which of them comes
\* next follows from the length of the log.
LogBounds == Bounds(Range(200, 800), Range(0, 500))

LogInputs ==
    <<<<ModuleDecision("increase", Num(100), Num(100), NoParams),
        StateVector("none", Absent, Absent, Num(500))>>,
      <<ModuleDecision("increase", Num(500), Num(900),
                       Params(Num(1200), Num(700))),
        StateVector("none", Absent, Absent, Num(500))>>,
      <<ModuleDecision("increase", Num(100), Num(900), Params(Num(500), Absent)),
        StateVector("none", Absent, Absent, Num(1000))>>>>

\* the first input records one violation, the second two, the third one:
\* with n records logged so far the turn is
LogTurn(n) == IF n % 4 = 0 THEN 1 ELSE IF n % 4 = 1 THEN 2 ELSE 3

NextLog ==
    /\ UNCHANGED <<inflight, bus, unit>>
    /\ \/ bounds # LogBounds /\ SetBounds(LogBounds)
       \/ /\ bounds = LogBounds
          /\ \E k \in 1..Len(LogInputs) :
                /\ k = LogTurn(Len(violation_log))
                /\ ValidateCall(LogInputs[k][1], LogInputs[k][2])
       \/ ClearViolations

SpecLog ==
    Constructed(SafetyConfig(TRUE, DefaultMaxChangeRate, DefaultMinConfidence),
                EmptyConfig)
        /\ [][NextLog]_vars


\* The event bus alone: callers subscribe, unsubscribe, publish, start the
\* consuming task and stop it; the event loop runs the task, and every
\* coroutine that can run is run in the end.
NextBus ==
    \/ \E t \in Topics, h \in Handlers : Subscribe(t, h)
    \/ \E t \in Topics, h \in Handlers : Unsubscribe(t, h)
    \/ \E t \in Topics : PublishEvent(t)
    \/ StartProcessing
    \/ Stop
    \/ TaskStep

SpecBus == Init /\ [][NextBus]_vars /\ WF_vars(TaskStep)

\* The rule_based module on its own: the default configuration and one that
\* names every key, a patient with no baseline and baselines over [0, 1],
\* success rates below, between and above the default thresholds
UnitRuleConfigs == {EmptyConfig, RuleConfig(700, 300, 100, 150)}

UnitBaselines == {Absent, Num(0), Num(500), Num(1000)}

UnitRuleStates ==
    {StateVector("none", Absent, sr, Num(500)) :
        sr \in {Num(100), Num(250), Num(850)}}

NextRule ==
    \/ UnitNew("rule_based")
    \/ \E cfg \in UnitRuleConfigs, b \in UnitBaselines :
          UnitInitialize(cfg, Profile(b, Absent))
    \/ \E st \in UnitRuleStates : UnitCompute(st, "maintain")

SpecRule == Init /\ [][NextRule]_vars

\* The fuzzy module on its own: the default step size and a larger one;
\* performances of 0.2, 0.365, 0.85 and 0 made of the four metrics; the
\* inference functions called on a grid over [0, 1]
UnitStepSizes == {Absent, Num(500)}

UnitFuzzyStates ==
    {Metrics(Num(200), Num(200), Num(800), Num(1600), Num(500)),
     Metrics(Num(350), Num(350), Num(650), Num(1000), Num(500)),
     Metrics(Num(850), Num(850), Num(150), Num(300), Num(500)),
     Metrics(Num(0), Num(0), Num(1000), Num(2000), Num(500))}

FuzzyGrid == {100 * k : k \in 0..10}

NextFuzzy ==
    \/ UnitNew("fuzzy")
    \/ \E step \in UnitStepSizes : UnitInitialize(EmptyConfig, Profile(Absent, step))
    \/ \E st \in UnitFuzzyStates : UnitCompute(st, "maintain")
    \/ \E x \in FuzzyGrid : UnitInfer(x)

SpecFuzzy == Init /\ [][NextFuzzy]_vars

\* the RL module's state functions called directly, as its tests call them
UnitBins == {<<DefaultPerfBins, DefaultDiffBins>>, <<4, 3>>}

Nums(seq) == [i \in DOMAIN seq |-> Num(seq[i])]

UnitHistories ==
    {Nums(<<>>), Nums(<<600>>), Nums(<<400, 500, 600>>),
     Nums(<<600, 500, 400>>), Nums(<<500, 510, 500>>),
     Nums(<<900, 800, 700>>), Nums(<<100, 200, 300>>),
     Nums(<<300, 300, 300, 700, 800, 900>>),
     Nums(<<800, 800, 800, 300, 200, 100>>)}

UnitGridStates ==
    {StateVector("none", Num(a), Absent, Num(d)) :
        a \in {100 * k : k \in 0..10} \cup {250},
        d \in {0, 300, 700, 1000}}

NextRLState ==
    \/ \E b \in UnitBins : UnitNewRL(b[1], b[2])
    \/ \E h \in UnitHistories : UnitSetHistory(h)
    \/ \E st \in UnitGridStates : UnitDiscretize(st)
    \/ UnitTrend

SpecRLState == Init /\ [][NextRLState]_vars

\* the RL module learning over successive compute_adaptation calls
UnitRLStates ==
    {StateVector("none", Num(a), Absent, Num(500)) : a \in {450, 600}}

NextRL ==
    \/ UnitNewRL(DefaultPerfBins, DefaultDiffBins)
    \/ UnitInitialize(EmptyConfig, Profile(Absent, Absent))
    \/ \E st \in UnitRLStates, explore \in BOOLEAN, choice \in Actions :
          UnitRLCompute(st, explore, choice)
    \/ UnitRLReset

SpecRL == Init /\ [][NextRL]_vars

\* the RL module's exploration rate: the default hyperparameters, and a
\* rate that reaches its floor with the first update
UnitEpsilonConfigs == {<<DefaultEpsilon, EpsilonDecay, EpsilonMin>>,
                       <<12, 500, EpsilonMin>>}

UnitDecayStates == {StateVector("none", Num(600), Absent, Num(500))}

NextRLDecay ==
    \/ \E c \in UnitEpsilonConfigs : UnitNewRLWith(c[1], c[2], c[3])
    \/ UnitInitialize(EmptyConfig, Profile(Absent, Absent))
    \/ \E st \in UnitDecayStates, explore \in BOOLEAN :
          UnitRLCompute(st, explore, "increase")
    \/ UnitRLUpdate(One)
    \/ UnitRLReset

SpecRLDecay == Init /\ [][NextRLDecay]_vars

\* the RL module over the rounds of test_learning_over_time: the same low
\* accuracy at difficulty 0.7 in every round
UnitLowStates ==
    {StateVector("none", Num(a), Absent, Num(700)) : a \in {250, 300}}

NextRLLow ==
    \/ UnitNewRL(DefaultPerfBins, DefaultDiffBins)
    \/ UnitInitialize(EmptyConfig, Profile(Absent, Absent))
    \/ \E st \in UnitLowStates, explore \in BOOLEAN, choice \in Actions :
          UnitRLRound(st, explore, choice)

SpecRLLow == Init /\ [][NextRLLow]_vars

\* files the modules are asked to load: a broken one, an object whose
\* second Q-table row names no action, and an object whose members have
\* the wrong types
BadRowFile ==
    File("object", Member(<<Num(900)>>),
         Member(RuleConfig(900, 300, 100, 150)), Num(300),
         Member(<<[key |-> Str(<<1, 2, 1>>),
                   row |-> [n \in Actions |->
                              IF n = "decrease" THEN 500000 ELSE 0]],
                  [key |-> Str(<<2, 2, 1>>),
                   row |-> [n \in {"bogus"} |-> 1000000]]>>),
         Num(50))

BadTypesFile ==
    File("object", Member(<<BadStr>>), BadMember, Absent, BadMember, Absent)

UnitFiles == {GarbageFile, BadRowFile, BadTypesFile}

UnitCheckpointStates == {StateVector("none", Num(600), Absent, Num(500))}

NextCheckpoint ==
    \/ \E kind \in {"rule_based", "fuzzy"} : UnitNew(kind)
    \/ UnitNewRL(DefaultPerfBins, DefaultDiffBins)
    \/ UnitInitialize(EmptyConfig, Profile(Absent, Absent))
    \/ \E st \in UnitCheckpointStates :
          /\ unit.module.kind # "rl"
          /\ Len(unit.module.performance_history) < MaxLearning
          /\ UnitCompute(st, "maintain")
    \/ \E st \in UnitCheckpointStates, explore \in BOOLEAN :
          UnitRLCompute(st, explore, "increase")
    \/ \E path \in CheckpointPaths, file \in UnitFiles :
          DirName(path) # "" /\ EnvPutFile(path, file)
    \/ \E path \in CheckpointPaths : UnitSaveCheckpoint(path)
    \/ \E path \in CheckpointPaths : UnitLoadCheckpoint(path)
    \/ \E path \in CheckpointPaths : UnitLoadFresh(path)

SpecCheckpoint == Init /\ [][NextCheckpoint]_vars


(***************************************************************************)
(* Properties                                                              *)
(***************************************************************************)
ValidatorCalled == call.op = "validate_decision"
ValidatorReturned == ValidatorCalled /\ call.result = "decision"

Recorded(vtype) == \E i \in 1..Len(call.recorded) : call.recorded[i] = vtype

WithinBound(b, x) == b.min <= x.v /\ x.v <= b.max

IsSafeDefault(d) ==
    d.action = "maintain" /\ d.magnitude = Num(0) /\ d.confidence = Num(SafeConfidence)

\* the state's current difficulty can be compared with a limit, and its value
Comparable(state) ==
    state.missing = "none" /\ state.difficulty.t \in {"absent", "num", "numstr"}
DifficultyOf(state) ==
    IF state.difficulty.t = "absent" THEN DefaultDifficulty ELSE state.difficulty.v

\* the action is asked for at the configured limit of 'difficulty'
AtLimit(action, state) ==
    LET b == bounds["difficulty"]
    IN  /\ Comparable(state)
        /\ \/ action = "increase" /\ b.k \in {"range", "max"}
                 /\ DifficultyOf(state) >= b.max
           \/ action = "decrease" /\ b.k \in {"range", "min"}
                 /\ DifficultyOf(state) <= b.min

C2_AlwaysInfeasibleRecorded ==
    ValidatorReturned =>
        /\ ~AtLimit(call.decision.action, call.state)
        /\ AtLimit(call.module_decision.action, call.state)
              => /\ IsSafeDefault(call.decision)
                 /\ call.modified
                 /\ Recorded("infeasible_action")

\* C2 amended: with the wrapper enabled, no returned decision increases at
\* the configured maximum or decreases at the configured minimum; a decision
\* that asked for it comes back as MAINTAIN with was_modified true: as the
\* safe default with infeasible_action recorded last when its confidence is
\* >= min_confidence, and with low_confidence recorded first and no
\* infeasible_action when its confidence is below min_confidence.
C2_EnabledInfeasible ==
    (ValidatorReturned /\ enabled) =>
        /\ ~AtLimit(call.decision.action, call.state)
        /\ AtLimit(call.module_decision.action, call.state)
              => /\ call.decision.action = "maintain"
                 /\ call.modified
                 /\ call.recorded # <<>>
                 /\ IF call.module_decision.confidence.v >= min_confidence
                    THEN /\ IsSafeDefault(call.decision)
                         /\ call.recorded[Len(call.recorded)] = "infeasible_action"
                    ELSE /\ call.recorded[1] = "low_confidence"
                         /\ ~Recorded("infeasible_action")

\* C2 witness: an enabled wrapper was asked to increase at the maximum (or to
\* decrease at the minimum) with enough confidence and returned the safe
\* default
C2_Witness ==
    /\ ValidatorReturned /\ enabled
    /\ AtLimit(call.module_decision.action, call.state)
    /\ call.module_decision.confidence.v >= min_confidence
    /\ Recorded("infeasible_action")
    /\ IsSafeDefault(call.decision)

C6_NeverRaises == ValidatorCalled => call.result = "decision"

\* C4 as stated: every decision compute_adaptation returns, with any of the
\* built-in modules and any module configuration the engine accepts, has
\* 0 <= magnitude <= 1 and 0 <= confidence <= 1.
C4_UnitRange ==
    (call.op = "compute_adaptation" /\ call.result = "decision") =>
        /\ IsNum(call.decision.magnitude)
        /\ 0 <= call.decision.magnitude.v /\ call.decision.magnitude.v <= One
        /\ IsNum(call.decision.confidence)
        /\ 0 <= call.decision.confidence.v /\ call.decision.confidence.v <= One

\* what a compute_adaptation step leaves alone when it returns no decision
NothingCounted ==
    /\ call'.result = "none"
    /\ call'.published = <<>>
    /\ UNCHANGED <<stats, sessions, events_published>>

\* C5: compute_adaptation hands its caller a decision or no-decision, never
\* an exception; with a state that lacks one of its maps the active module is
\* not invoked, and when the module or the validator raises the call returns
\* no-decision; in these cases the statistics, every session's
\* adaptation_count and the published events stay as they were.
C5_ComputeFailsCleanly ==
    [][/\ call'.op = "compute_adaptation"
           => call'.result \in {"none", "decision"}
       /\ \/ NothingCounted /\ UNCHANGED active_module
          \/ \A st \in EngineStates, choice \in Choices :
                LET r == ModuleCompute(active_module, st, choice)
                    v == ValidateDecision(r.decision, st)
                IN  (/\ call'.op = "compute_adaptation"
                     /\ is_running /\ active_module # NoModule
                     /\ st.missing # "none" \/ r.raised \/ v.raised
                     /\ \E sid \in SessionIds :
                           ComputeAdaptation(sid, st, choice))
                    => /\ NothingCounted
                       /\ st.missing # "none" => UNCHANGED active_module]_vars

\* C5 witness: a running engine whose validator raised inside
\* compute_adaptation, after which no adaptation is counted
C5_Witness ==
    /\ call.op = "compute_adaptation" /\ call.reason = "validator_raised"
    /\ call.result = "none"
    /\ is_running /\ stats.total_adaptations = 0

NotRunningOps ==
    {"compute_adaptation", "update_feedback", "swap_module", "end_session"}

\* what an operation leaves alone in NOT_RUNNING
NotRunningNoOp ==
    /\ active_module = NoModule
    /\ Live = {}
    /\ call'.published = <<>>
    /\ UNCHANGED <<sessions, active_module, stats, events_published, is_running>>

C9_FailedInitialize ==
    [][\A sid \in SessionIds, r \in InitRequests :
          (/\ call'.op = "initialize_session"
           /\ \/ r[1] \notin module_registry
              \/ ModuleInitialize(NewModule(r[1], NewInst), ModuleConfig(r[1]),
                                  r[2]) = NoModule
           /\ InitializeSession(sid, r[1], r[2], r[3]))
          => /\ call'.result = "false"
             /\ call'.published = <<>>
             /\ UNCHANGED <<sessions, active_module, bounds, is_running,
                            events_published>>]_vars

\* C9 witness: a registered module's initialize returned False and
\* initialize_session returned false
C9_Witness ==
    /\ call.op = "initialize_session" /\ call.reason = "init_failed"
    /\ call.result = "false"
    /\ "rule_based" \in module_registry

\* the new module of swap_module cannot be had: the session is unknown, the
\* type is not registered, or its initialize returns False
SwapFails(sid, new_type) ==
    \/ ~sessions[sid].live
    \/ new_type \notin module_registry
    \/ ModuleInitialize(NewModule(new_type, NewInst), ModuleConfig(new_type),
                        sessions[sid].patient_profile) = NoModule

\* C10 as stated: a swap_module that returns false leaves the active module
\* and its internal state, the session's module_type, module_swaps and the
\* published events as they were.
C10_FailedSwapChangesNothing ==
    [][\A sid \in SessionIds, new_type \in EngineTypes \cup {"unknown"} :
          (/\ call'.op = "swap_module"
           /\ SwapFails(sid, new_type)
           /\ SwapModule(sid, new_type, NoConfig))
          => /\ call'.result = "false"
             /\ call'.published = <<>>
             /\ UNCHANGED <<active_module, sessions, stats, events_published>>]_vars

\* C10 amended: a swap_module that fails returns false and leaves the
\* session's module_type, module_swaps and the published events as they
\* were; the active module is the same instance and is not reset, and stays
\* as it was but for the checkpoint it was asked to save when the session is
\* known: the RL module then has this checkpoint's path as its save_path.
C10_FailedSwapKeepsModule ==
    [][\A sid \in SessionIds, new_type \in EngineTypes \cup {"unknown"} :
          (/\ call'.op = "swap_module"
           /\ SwapFails(sid, new_type)
           /\ SwapModule(sid, new_type, NoConfig))
          => /\ call'.result = "false"
             /\ call'.published = <<>>
             /\ UNCHANGED <<sessions, stats, events_published>>
             /\ active_module' =
                   IF sessions[sid].live /\ active_module.kind = "rl"
                   THEN [active_module EXCEPT
                           !.save_path =
                               CheckpointPath(sid, sessions[sid].module_type,
                                              "ckpt")]
                   ELSE active_module]_vars

\* C10 witness: a swap to an unregistered type failed on an RL module that
\* had decided before; the module kept what it had and got the checkpoint path
C10_Witness ==
    /\ call.op = "swap_module" /\ call.reason = "unregistered"
    /\ call.result = "false"
    /\ active_module.kind = "rl" /\ active_module.has_last
    /\ active_module.save_path # <<>>

\* C11: a successful swap_module leaves every session's adaptation_count and
\* the total_adaptations and safety_interventions counters as they were; it
\* puts a newly constructed module of the new type in place of the active
\* one, sets the swapped session's module_type, adds one to module_swaps
\* (and publishes module.swapped), and changes nothing else of the engine or
\* the validator.
C11_SwapKeepsCounters ==
    [][\A sid \in SessionIds, new_type \in EngineTypes :
          (/\ call'.op = "swap_module" /\ call'.result = "true"
           /\ SwapModule(sid, new_type, NoConfig))
          => /\ \A x \in SessionIds :
                   sessions'[x].adaptation_count = sessions[x].adaptation_count
             /\ stats'.total_adaptations = stats.total_adaptations
             /\ stats'.safety_interventions = stats.safety_interventions
             /\ stats'.module_swaps = stats.module_swaps + 1
             /\ sessions' = [sessions EXCEPT ![sid].module_type = new_type]
             /\ active_module'.kind = new_type
             /\ active_module'.inst # active_module.inst
             /\ UNCHANGED <<safetyVars, config, module_registry, is_running>>]_vars

\* C11 witness: a module was swapped after an adaptation was counted, with a
\* safety intervention
C11_Witness ==
    /\ call.op = "swap_module" /\ call.result = "true"
    /\ stats.total_adaptations = 1 /\ stats.safety_interventions = 1
    /\ stats.module_swaps = 1
    /\ \E x \in SessionIds : sessions[x].live /\ sessions[x].adaptation_count = 1

\* the decision carries the mark of the module class that made it: the
\* rule_based module reports current_performance, the RL module no parameter
ProducedBy(kind, d) ==
    /\ kind = "rule_based" => IsNum(d.parameters["current_performance"])
    /\ kind = "rl" => d.parameters = NoParams /\ d.magnitude.v \in {0, RLMagnitude}

\* C12: when swap_module has completed while a compute_adaptation call was
\* suspended in the old module's compute, the call finishes against the old
\* instance (as the swap has reset it): its decision is the one that instance
\* makes, the new active instance is left as it is, and the decision is
\* validated, counted in total_adaptations, safety_interventions and the
\* session's adaptation_count, and published.
C12_FinishesAgainstOld ==
    [][(inflight.pending /\ inflight.detached /\ ~inflight'.pending) =>
          /\ UNCHANGED active_module
          /\ call'.op = "compute_adaptation" /\ call'.result = "decision"
          /\ ProducedBy(inflight.module.kind, call'.module_decision)
          /\ \E choice \in Actions :
                LET d == IF inflight.point = "exit" THEN inflight.decision
                         ELSE ModuleCompute(inflight.module, inflight.state,
                                            choice).decision
                    v == ValidateDecision(d, inflight.state)
                IN  /\ call'.module_decision = d
                    /\ call'.decision = v.cur
                    /\ call'.modified = v.modified
          /\ ~AtLimit(call'.decision.action, inflight.state)
          /\ call'.decision.magnitude.v <= max_change_rate
          /\ stats'.total_adaptations = stats.total_adaptations + 1
          /\ stats'.safety_interventions =
                stats.safety_interventions + (IF call'.modified THEN 1 ELSE 0)
          /\ sessions' = [sessions EXCEPT
                            ![inflight.sid].adaptation_count = @ + 1]
          /\ call'.published = <<"adaptation.computed">>]_vars

\* C12 witness: the rule_based module was swapped for the RL module while a
\* call was suspended in it; the call came back with the rule_based
\* module's decision, overridden by the validator and counted
C12_Witness ==
    /\ call.op = "compute_adaptation" /\ call.reason = "resumed"
    /\ active_module.kind = "rl" /\ ~active_module.has_last
    /\ IsNum(call.module_decision.parameters["current_performance"])
    /\ call.modified
    /\ stats.module_swaps = 1 /\ stats.total_adaptations = 1
    /\ stats.safety_interventions = 1
    /\ sessions["s1"].adaptation_count = 1

\* C13 as stated: compute_adaptation called with a session id that has no
\* live session returns no-decision and changes no counter, also while
\* another session keeps the engine running.
C13_UnknownSessionNoDecision ==
    [][\A sid \in SessionIds, st \in EngineStates, choice \in Choices :
          (/\ call'.op = "compute_adaptation"
           /\ ~sessions[sid].live
           /\ ComputeAdaptation(sid, st, choice))
          => /\ call'.result = "none"
             /\ UNCHANGED <<stats, sessions>>]_vars

\* C14 as stated: whenever compute_adaptation validates a decision for a
\* live session S, the bounds the validator applies are the safety_bounds of
\* S's own task_config, whatever other sessions were initialized or ended
\* since.
C14_OwnBounds ==
    [][\A sid \in SessionIds, st \in EngineStates, choice \in Choices :
          (/\ call'.op = "compute_adaptation"
           /\ sessions[sid].live /\ EngineReady /\ ValidateState(st)
           /\ ~ModuleCompute(active_module, st, choice).raised
           /\ ComputeAdaptation(sid, st, choice))
          => bounds = sessions[sid].task_config]_vars

\* the records the last validate_decision call appended to the log (the
\* log is far from its capacity)
LastRecords ==
    SubSeq(violation_log, Len(violation_log) - Len(call.recorded) + 1,
           Len(violation_log))

\* C15 as stated: every violation record holds the decision as the module
\* produced it: a rate_limit record the original magnitude, above
\* max_change_rate, and a parameter_bounds record the original parameters.
C15_SnapshotOriginal ==
    (ValidatorCalled /\ Len(call.recorded) <= Len(violation_log)) =>
        \A i \in 1..Len(call.recorded) :
            /\ LastRecords[i].type = call.recorded[i]
            /\ LastRecords[i].type = "rate_limit"
                  => /\ LastRecords[i].decision.magnitude
                           = call.module_decision.magnitude
                     /\ LastRecords[i].decision.magnitude.v > max_change_rate
            /\ LastRecords[i].type = "parameter_bounds"
                  => LastRecords[i].decision.parameters
                         = call.module_decision.parameters

\* C16: the violation log never holds more than 1000 records; a
\* validate_decision call appends its violations in the order it found
\* them and, beyond 1000, drops the oldest records first, so the log is
\* always the most recent records in recording order; the per-type counts of
\* get_violation_stats add up to the length of the log.
C16_LogRing ==
    [][/\ Len(violation_log') <= LogCapacity
       /\ (GetViolationStats["low_confidence"] + GetViolationStats["parameter_bounds"]
             + GetViolationStats["rate_limit"]
             + GetViolationStats["infeasible_action"])' = Len(violation_log')
       /\ call'.op = "validate_decision" =>
             LET total == Len(violation_log) + Len(call'.recorded)
                 keep  == Min(total, LogCapacity)
                 drop  == total - keep
             IN  /\ Len(violation_log') = keep
                 /\ \A i \in 1..keep :
                       IF i + drop <= Len(violation_log)
                       THEN violation_log'[i] = violation_log[i + drop]
                       ELSE violation_log'[i].type
                                = call'.recorded[i + drop - Len(violation_log)]]_vars

\* C16 witness: the log is full, the last call recorded a violation and the
\* oldest record, the first low_confidence ever logged, made room for it
C16_Witness ==
    /\ Len(violation_log) = LogCapacity
    /\ call.op = "validate_decision"
    /\ call.recorded = <<"low_confidence">>
    /\ violation_log[LogCapacity].type = "low_confidence"
    /\ violation_log[LogCapacity - 1].type = "infeasible_action"
    /\ violation_log[1].type = "parameter_bounds"

\* what validate_decision hands back for an input, with the violations it
\* records, when the validator's log is log
ValidatorResult(log, d, st) ==
    LET v == ValidateWith(log, d, st)
    IN  [raised |-> v.raised, decision |-> v.cur, modified |-> v.modified,
         recorded |-> v.recorded]

\* C17: what validate_decision returns for a decision and a state depends on
\* these and on enabled, max_change_rate, min_confidence and the bounds
\* only: a validator with the violations of earlier calls in its log gives
\* every input the result a validator of the same configuration with an
\* empty log gives it.
C17_LogIndependent ==
    \A d \in Decisions, st \in ValidatorStates :
        ValidatorResult(violation_log, d, st) = ValidatorResult(<<>>, d, st)

\* C17 witness: a call has left violations in the log, and the same input
\* handed to the validator again, now with the log filled, gets the same
\* modified decision
C17_Witness ==
    /\ ValidatorReturned /\ call.modified
    /\ Len(violation_log) >= 2
    /\ ValidatorResult(violation_log, call.module_decision, call.state).decision
          = call.decision
    /\ ValidatorResult(violation_log, call.module_decision, call.state).modified

\* C18 as stated: every decision validate_decision returns while enabled,
\* with a max_change_rate that is not negative, carries a new difficulty,
\* parameters['difficulty'], that differs from the state's
\* task_state['difficulty'] by at most max_change_rate.
C18_NoSuddenJump ==
    (/\ ValidatorReturned /\ enabled /\ max_change_rate >= 0
     /\ call.state.missing = "none"
     /\ IsNum(call.state.difficulty)
     /\ IsNum(call.decision.parameters["difficulty"]))
        => Abs(call.decision.parameters["difficulty"].v - call.state.difficulty.v)
               <= max_change_rate

\* event e is in the queue
Queued(e) == \E i \in 1..Len(bus.queue) : bus.queue[i].id = e

\* the consuming task is through with event e, and every callback that
\* was subscribed to its topic when the task read the list has run for it
Handled(e) ==
    /\ bus.held.id = e
    /\ bus.task \in {"check", "poll", "exited"}
    /\ bus.targeted \subseteq bus.delivered

\* C19 as stated, for a bus whose consuming task has been started and is
\* not stopped: every event publish has put in the queue is in the end
\* dispatched to each callback subscribed to its topic, whatever the other
\* callbacks of the topic do.
C19_EventuallyDispatched ==
    \A e \in 1..MaxBusEvents :
        (Queued(e) /\ bus.task # "none") ~> (Handled(e) \/ bus.stopped)

\* C20 as stated: once stop() has been called on a bus that has a consuming
\* task, the task exits in the end.
C20_StopExits == bus.stopped ~> (bus.task = "exited")

\* the consuming task is through with the event it took last
DispatchOver == bus.held.id # 0 /\ bus.task \in {"check", "poll", "exited"}

\* C21 as stated: when the consumer is through with the k-th event it took
\* from the queue, events_processed is k, and if a callback failed during
\* the dispatch the errors counter is not zero.
C21_FailuresCounted ==
    DispatchOver =>
        /\ bus.events_processed = bus.held.id
        /\ "h_fail" \in bus.delivered => bus.errors >= 1

\* C22: the consumer takes the events in the order publish accepted them
\* (event k + 1 right after event k), and when it takes one, no coroutine
\* it started for the event before is still to finish.
C22_InOrderAfterJoin ==
    [][bus'.held # bus.held
          => /\ bus'.held.id = bus.held.id + 1
             /\ bus.tasks = <<>>
             /\ "h_badsig" \notin bus.targeted
                    => bus.targeted \subseteq bus.delivered]_vars

\* C22 witness: two callbacks, one of them failing, have run for the first
\* event while the second waits in the queue; gather is about to return
C22_Witness ==
    /\ bus.held.id = 1 /\ bus.task = "gather" /\ bus.tasks = <<>>
    /\ bus.delivered = {"h_ok", "h_fail"}
    /\ Queued(2)

\* the rule_based module has returned a decision to its caller
RuleDecided ==
    unit.module.kind = "rule_based" /\ unit.called /\ ~unit.raised

\* the window mean the decision reports (parameters['current_performance'])
RuleAvg == unit.decision.parameters["current_performance"].v

\* C23 as stated: whatever thresholds initialize installed, from the
\* configuration or from a baseline in [0, 1], the action is INCREASE
\* whenever the window mean is at least success_threshold, DECREASE
\* whenever it is at most failure_threshold, and otherwise MAINTAIN with
\* magnitude 0 and confidence 0.9.
C23_ThresholdRules ==
    RuleDecided =>
        /\ RuleAvg >= unit.module.success_threshold
              => unit.decision.action = "increase"
        /\ RuleAvg <= unit.module.failure_threshold
              => unit.decision.action = "decrease"
        /\ (/\ RuleAvg < unit.module.success_threshold
            /\ RuleAvg > unit.module.failure_threshold)
              => /\ unit.decision.action = "maintain"
                 /\ unit.decision.magnitude = Num(0)
                 /\ unit.decision.confidence = Num(MaintainConfidence)

\* the last n entries of a sequence
LastN(seq, n) ==
    IF Len(seq) <= n THEN seq ELSE SubSeq(seq, Len(seq) - n + 1, Len(seq))

\* five calls in a row reported success_rate 0.85, the last at difficulty 0.5
FiveAt85 ==
    /\ unit.module.performance_history = [i \in 1..HistoryWindow |-> Num(850)]
    /\ unit.state.difficulty = Num(500)

\* C24: the window holds the last min(n, 5) success rates, oldest dropped
\* first, and the decision is made on their mean; with the default
\* thresholds and steps and no baseline, after five calls in a row with
\* success_rate 0.85 at difficulty 0.5 the decision is INCREASE by 0.1 to
\* difficulty 0.6.
C24_WindowOfFive ==
    [][(unit'.called /\ unit' # unit /\ unit.ready
            /\ unit'.module.kind = "rule_based")
          => /\ Len(unit'.module.performance_history) <= HistoryWindow
             /\ unit'.module.performance_history
                   = LastN(Append(unit.module.performance_history,
                                  SuccessRate(unit'.state)), HistoryWindow)
             /\ ~unit'.raised
                   => unit'.decision.parameters["current_performance"].v
                        = Quot(Sum(unit'.module.performance_history),
                               Len(unit'.module.performance_history))
             /\ (/\ FiveAt85'
                 /\ unit'.module.success_threshold = DefaultSuccessThreshold
                 /\ unit'.module.increase_step = DefaultIncreaseStep)
                   => /\ unit'.decision.action = "increase"
                      /\ unit'.decision.magnitude = Num(100)
                      /\ unit'.decision.parameters["difficulty"] = Num(600)]_vars

\* C24 witness: the window is full of 0.85 after lower rates were dropped
\* from it, and the decision is INCREASE to 0.6
C24_Witness ==
    /\ RuleDecided /\ FiveAt85
    /\ unit.module.success_threshold = DefaultSuccessThreshold
    /\ unit.decision.action = "increase"
    /\ unit.decision.parameters["difficulty"] = Num(600)

\* what the claim says trapezoid(a, b, c, d) is at x
TrapezoidAsStated(x, params, mu) ==
    LET a == params[1]
        b == params[2]
        c == params[3]
        d == params[4]
    IN  /\ (b <= x /\ x <= c) => mu = One
        /\ (x < a \/ x > d) => mu = 0
        /\ (a < x /\ x < b) => mu = Quot((x - a) * One, b - a)
        /\ (c < x /\ x < d) => mu = Quot((d - x) * One, d - c)

\* the inference functions have been called on a performance
Inferred == unit.module.kind = "fuzzy" /\ IsNum(unit.x)

\* C25 as stated: for every performance x in [0, 1] each of LOW, MEDIUM and
\* HIGH is 1 on [b, c], 0 outside [a, d] and the ramp value in between, and
\* at least one of the three is not zero.
C25_Trapezoids ==
    Inferred =>
        /\ TrapezoidAsStated(unit.x.v, PerfLowParams, unit.fz.low)
        /\ TrapezoidAsStated(unit.x.v, PerfMediumParams, unit.fz.medium)
        /\ TrapezoidAsStated(unit.x.v, PerfHighParams, unit.fz.high)
        /\ unit.fz.low + unit.fz.medium + unit.fz.high > 0

\* the inference functions were called on 0.2 by a module with step_size 0.1
InferredAtFifth ==
    Inferred /\ unit.x = Num(200) /\ unit.module.step_size = DefaultStepSize

\* C26 as stated: a performance of 0.2 has membership 0.667 in LOW and 0 in
\* MEDIUM and HIGH, a raw change of -0.1 and, with step_size 0.1, a
\* difficulty_change of -0.01.
C26_LowTwoThirds ==
    InferredAtFifth =>
        /\ unit.fz = [low |-> 667, medium |-> 0, high |-> 0]
        /\ unit.raw = 0 - 100
        /\ unit.change = 0 - 10

\* C26 amended: a performance of 0.2 lies on the plateau of LOW, so its
\* membership in LOW is 1 (0 in MEDIUM and HIGH); the raw change is -0.1
\* and, with step_size 0.1, the difficulty_change is -0.01; a first call of
\* compute_adaptation whose metrics aggregate to 0.2 returns DECREASE with
\* magnitude 0.01 and confidence 1.
C26_LowPlateau ==
    /\ InferredAtFifth =>
          /\ unit.fz = [low |-> One, medium |-> 0, high |-> 0]
          /\ unit.raw = 0 - 100
          /\ unit.change = 0 - 10
    /\ (/\ unit.module.kind = "fuzzy" /\ unit.called /\ ~unit.raised
        /\ unit.module.performance_history = <<Num(200)>>
        /\ unit.module.step_size = DefaultStepSize)
          => /\ unit.decision.action = "decrease"
             /\ unit.decision.magnitude = Num(10)
             /\ unit.decision.confidence = Num(One)
             /\ unit.decision.parameters["difficulty"]
                   = Num(unit.state.difficulty.v - 10)

\* C26 witness: the functions have been called on 0.2 after a first
\* compute_adaptation on metrics that aggregate to 0.2
C26_Witness ==
    /\ InferredAtFifth
    /\ unit.called /\ unit.module.performance_history = <<Num(200)>>
    /\ unit.decision.action = "decrease"

\* the fuzzy module has returned a decision to its caller
FuzzyDecided == unit.module.kind = "fuzzy" /\ unit.called /\ ~unit.raised

\* C27 as stated: with the default step_size the action follows the
\* dominant term of the smoothed performance: LOW gives DECREASE and a
\* difficulty not above the current one, MEDIUM gives MAINTAIN, HIGH gives
\* INCREASE and a difficulty not below the current one.
C27_ActionFollowsTerm ==
    (FuzzyDecided /\ unit.module.step_size = DefaultStepSize) =>
        LET term == DominantTerm(FuzzifyPerformance(FuzzySmoothed(unit.module)))
            newd == unit.decision.parameters["difficulty"].v
        IN  /\ term = "low" => /\ unit.decision.action = "decrease"
                               /\ newd <= unit.state.difficulty.v
            /\ term = "medium" => unit.decision.action = "maintain"
            /\ term = "high" => /\ unit.decision.action = "increase"
                                /\ newd >= unit.state.difficulty.v

\* floor(x * bins) for x in thousandths, found by search
FloorBin(x, bins) ==
    CHOOSE k \in 0..bins : k * One <= x * bins /\ x * bins < (k + 1) * One

\* C28: _discretize_state returns, for accuracy and difficulty in [0,1] and
\* every history, bins with 0 <= perf_bin < perf_bins, 0 <= diff_bin <
\* diff_bins and 0 <= trend_bin < 3, where perf_bin is
\* min(floor(accuracy * perf_bins), perf_bins - 1) and diff_bin likewise;
\* with 10 and 5 bins, accuracy 0.25, difficulty 0.7 and fewer than two
\* history points it returns (2, 3, 1).
C28_BinsInRange ==
    [][UnitDiscretize(unit'.state) =>
            LET st == unit'.state
                d == unit'.rl.discrete
                pb == unit.rl.perf_bins
                db == unit.rl.diff_bins
            IN  /\ 0 <= d[1] /\ d[1] < pb
                /\ 0 <= d[2] /\ d[2] < db
                /\ 0 <= d[3] /\ d[3] < 3
                /\ d[1] = Min(FloorBin(st.accuracy.v, pb), pb - 1)
                /\ d[2] = Min(FloorBin(st.difficulty.v, db), db - 1)
                /\ (/\ pb = DefaultPerfBins /\ db = DefaultDiffBins
                    /\ st.accuracy = Num(250) /\ st.difficulty = Num(700)
                    /\ Len(unit.module.performance_history) < 2)
                      => d = <<2, 3, 1>>]_vars

\* C28 witness: _discretize_state has returned (2, 3, 1) for accuracy 0.25
\* and difficulty 0.7 with 10 and 5 bins and the history [0.6]
C28_Witness ==
    /\ unit.module.kind = "rl"
    /\ unit.rl.perf_bins = DefaultPerfBins /\ unit.rl.diff_bins = DefaultDiffBins
    /\ unit.state.accuracy = Num(250) /\ unit.state.difficulty = Num(700)
    /\ unit.module.performance_history = Nums(<<600>>)
    /\ unit.rl.discrete = <<2, 3, 1>>

\* C29 as stated: _calculate_trend_bin returns 2 (improving) for the
\* history [0.4, 0.5, 0.6], 0 (declining) for [0.6, 0.5, 0.4] and 1 (stable)
\* for [0.5, 0.51, 0.5].
C29_TrendDirection ==
    [][UnitTrend =>
         LET h == unit.module.performance_history
             t == unit'.rl.trend
         IN  /\ h = Nums(<<400, 500, 600>>) => t = 2
             /\ h = Nums(<<600, 500, 400>>) => t = 0
             /\ h = Nums(<<500, 510, 500>>) => t = 1]_vars

\* the (state, action) pairs whose Q-value differs between two tables
ChangedQ(q1, q2) ==
    {p \in (DOMAIN q1 \cup DOMAIN q2) \X Actions :
        GetQValue(q1, p[1], p[2]) # GetQValue(q2, p[1], p[2])}

\* C30 as stated: a compute_adaptation call that follows an earlier call
\* with no reset in between changes exactly one Q-value, that of the
\* previous (state, action) pair; the first call after construction or reset
\* changes no Q-value and leaves epsilon alone.
C30_ExactlyOneQValue ==
    [][\A explore \in BOOLEAN, choice \in Actions :
         UnitRLCompute(unit'.state, explore, choice) =>
            LET changed == ChangedQ(unit.rl.q_table, unit'.rl.q_table)
                st == unit'.state
            IN  IF Learns(unit.rl)
                THEN changed = {<<unit.rl.last_state, unit.rl.last_action>>}
                ELSE /\ changed = {}
                     /\ unit'.module.epsilon = unit.module.epsilon]_vars

\* C30, amended: such a call changes no Q-value but that of the previous
\* (state, action) pair, which it rewrites with the Q-learning rule applied
\* to the newly observed state (the value can come out equal to the old
\* one); epsilon decays; an action selected by exploitation is the best one
\* of the table after the update.  The first call after construction or
\* reset changes no Q-value and leaves epsilon alone.
C30_OnlyPreviousPair ==
    [][\A explore \in BOOLEAN, choice \in Actions :
         UnitRLCompute(unit'.state, explore, choice) =>
            LET changed == ChangedQ(unit.rl.q_table, unit'.rl.q_table)
                st == unit'.state
                ls == unit.rl.last_state
                la == unit.rl.last_action
                s == unit'.rl.last_state
                q == unit'.rl.q_table
            IN  IF Learns(unit.rl)
                THEN /\ changed \subseteq {<<ls, la>>}
                     /\ s = DiscretizeState(unit.rl,
                                unit.module.performance_history, st)
                     /\ q[ls][la] =
                           NewQValue(unit.rl.q_table, ls, la,
                                     CalculateReward(
                                        unit'.module.performance_history,
                                        st.accuracy.v, la), s)
                     /\ unit'.module.epsilon =
                           Max(EpsilonMin,
                               Quot(unit.module.epsilon * EpsilonDecay, One))
                     /\ ~explore => unit'.rl.last_action = BestAction(q[s])
                ELSE /\ changed = {}
                     /\ unit'.module.epsilon = unit.module.epsilon]_vars

\* C30 witness: the second call has learnt: the pair of the first call,
\* state (6, 2, 1) with INCREASE, has a positive Q-value, every other
\* Q-value is 0, epsilon has decayed once and exploitation has picked
\* INCREASE
C30_Witness ==
    /\ unit.module.kind = "rl" /\ unit.called
    /\ Len(unit.module.performance_history) = 1
    /\ unit.module.epsilon = 199
    /\ <<6, 2, 1>> \in DOMAIN unit.rl.q_table
    /\ unit.rl.q_table[<<6, 2, 1>>]["increase"] > 0
    /\ ChangedQ(NoQTable, unit.rl.q_table) = {<<<<6, 2, 1>>, "increase">>}
    /\ unit.rl.last_state = <<6, 2, 1>> /\ unit.rl.last_action = "increase"

RLStepTaken == unit.module.kind = "rl" /\ unit' # unit

\* a compute_adaptation call that runs _update_q_value
RLLearningStep ==
    /\ Learns(unit.rl)
    /\ \E explore \in BOOLEAN, choice \in Actions :
          UnitRLCompute(unit'.state, explore, choice)

\* C31: over compute_adaptation, update and reset calls, starting with
\* epsilon >= epsilon_min, epsilon never increases and never drops below
\* epsilon_min; a call that runs the Q-learning update multiplies it by the
\* decay factor once (down to the floor epsilon_min) and every other call
\* leaves it alone; the confidence 1 - epsilon of the decisions never
\* decreases.
C31_EpsilonDecays ==
    [][RLStepTaken =>
         LET m == unit.module
             eps == unit'.module.epsilon
         IN  /\ eps <= m.epsilon
             /\ eps >= m.epsilon_min
             /\ eps = IF RLLearningStep THEN DecayEpsilon(m) ELSE m.epsilon
             /\ unit'.called => unit'.decision.confidence = Num(One - eps)
             /\ unit.called =>
                   unit'.decision.confidence.v >= unit.decision.confidence.v]_vars

\* C31 witness: an update has brought epsilon from 0.012 down to its floor
\* 0.01, a further update, a reset and an external reward have left it
\* there
C31_Witness ==
    /\ unit.module.kind = "rl" /\ unit.rl.updates = 2
    /\ unit.module.epsilon_decay = 500
    /\ unit.module.epsilon = unit.module.epsilon_min
    /\ ~Learns(unit.rl)
    /\ \E s \in DOMAIN unit.rl.q_table :
          unit.rl.q_table[s]["increase"] > Alpha * One

\* the rounds of test_learning_over_time are over
RoundsOver == unit.module.kind = "rl" /\ unit.rounds = LearningRounds

\* the discrete state of the observation of the rounds, as
\* _discretize_state gives it after the last round
LowState ==
    DiscretizeState(unit.rl, unit.module.performance_history, unit.state)

C32_RoundTrip ==
    [][(/\ unit.io.op = "save" /\ unit.io.path = unit'.io.path
        /\ UnitLoadFresh(unit'.io.path))
          => Saved(unit'.module, unit'.rl.q_table) = unit.saved]_vars

\* all numbers of a list
Numeric(history) == \A i \in DOMAIN history : IsNum(history[i])

\* a checkpoint the module of this kind cannot load: no file, no JSON
\* object, or an object whose members for this kind have the wrong type
Unloadable(kind, file) ==
    \/ file.json # "object"
    \/ ~Numeric(file.performance_history.v)
    \/ kind = "rule_based" /\ file.config.t = "bad"
    \/ kind = "rl" /\ \/ file.q_table.t = "bad"
                      \/ \E i \in DOMAIN file.q_table.v :
                            DOMAIN file.q_table.v[i].row # Actions

\* what a module has learnt or was configured with
Learnt(u) ==
    [performance_history |-> u.module.performance_history,
     success_threshold |-> u.module.success_threshold,
     failure_threshold |-> u.module.failure_threshold,
     step_size |-> u.module.step_size,
     q_table |-> u.rl.q_table, epsilon |-> u.module.epsilon]

\* C33 as stated: load_checkpoint of any of the three modules on a missing,
\* unreadable or malformed checkpoint returns false and leaves the history,
\* the thresholds, the step size, the Q-table and epsilon as they were.
C33_FailedLoadChangesNothing ==
    [][(/\ unit'.io.op = "load" /\ UnitLoadCheckpoint(unit'.io.path)
        /\ Unloadable(unit.module.kind, unit.files[unit'.io.path]))
          => /\ unit'.io.returned = FALSE
             /\ Learnt(unit') = Learnt(unit)]_vars


\* ---------------------------------------------------------------------
\* C35: get_status changes no engine state: the step leaves the validator
\* and the engine as they were, so the status a second call returns right
\* after it (running flag, session count, registered module names and the
\* counters) is the status the first one returned.  The statistics here
\* are the three counters; average_latency_ms is written by _update_stats
\* in the same statement group as total_adaptations
\* (adaptation_engine.py:347-354) and by nothing else.
C35_StatusReadOnly ==
    [][GetStatus =>
          /\ UNCHANGED <<safetyVars, engineVars>>
          /\ Status' = Status]_vars

\* get_status has answered on an engine with a session and adaptations
C35_Witness ==
    /\ call.op = "get_status"
    /\ call.result = "status"
    /\ Status.is_running
    /\ Status.active_sessions >= 1
    /\ Status.statistics.total_adaptations >= 1
    /\ Status.registered_modules # {}


\* ---------------------------------------------------------------------
\* how often x occurs in seq
CountOf(seq, x) == Cardinality({i \in DOMAIN seq : seq[i] = x})

RECURSIVE AdaptationCount(_)
\* the adaptation_count entries of the sessions in S, added up
AdaptationCount(S) ==
    IF S = {} THEN 0
    ELSE LET x == CHOOSE y \in S : TRUE
         IN  sessions[x].adaptation_count + AdaptationCount(S \ {x})

\* this step is a compute_adaptation call that handed a decision back
DecisionReturned ==
    /\ call'.op = "compute_adaptation"
    /\ call'.result = "decision"
    /\ \E sid \in SessionIds, st \in EngineStates, choice \in Choices :
          ComputeAdaptation(sid, st, choice)

\* C37: total_adaptations counts the compute_adaptation calls that returned
\* a decision: it goes up by one in exactly those steps and is changed by
\* no other; each such step publishes one adaptation.computed event and no
\* other step publishes one, so the number of those events is the counter;
\* safety_interventions and the adaptation_count of the live sessions added
\* up never exceed it.
C37_CountersAgree ==
    /\ [](/\ stats.safety_interventions <= stats.total_adaptations
          /\ AdaptationCount(Live) <= stats.total_adaptations)
    /\ [][LET n == IF DecisionReturned THEN 1 ELSE 0
          IN  /\ stats'.total_adaptations = stats.total_adaptations + n
              /\ CountOf(call'.published, "adaptation.computed") = n]_vars

\* a decision was returned for a live session after the validator changed
\* it, and the event went out
C37_Witness ==
    /\ call.op = "compute_adaptation"
    /\ call.result = "decision"
    /\ call.modified
    /\ CountOf(call.published, "adaptation.computed") = 1
    /\ stats.total_adaptations >= 1
    /\ stats.safety_interventions >= 1
    /\ AdaptationCount(Live) >= 1


\* ---------------------------------------------------------------------
\* the place of a check in validate_decision (safety_wrapper.py:73-109)
CheckRank(vtype) ==
    CASE vtype = "low_confidence"    -> 1
      [] vtype = "parameter_bounds"  -> 2
      [] vtype = "rate_limit"        -> 3
      [] vtype = "infeasible_action" -> 4

\* C38: one validate_decision call runs confidence floor, parameter bounds,
\* rate limit, feasibility in that order, each on the decision the checks
\* before it left: the violations of the call are recorded in that order,
\* each at most once; a call that returns reports was_modified exactly when
\* it recorded a violation; with max_change_rate >= 0 a call that recorded
\* low_confidence recorded nothing else (the later checks saw the safe
\* default); a returned decision found infeasible is the safe default, and
\* one that was rate limited and found feasible carries the limit.
C38_ChecksInOrder ==
    ValidatorCalled =>
        /\ \A i, j \in DOMAIN call.recorded :
              i < j => CheckRank(call.recorded[i]) < CheckRank(call.recorded[j])
        /\ ValidatorReturned =>
              /\ call.modified <=> call.recorded # <<>>
              /\ (Recorded("low_confidence") /\ max_change_rate >= 0)
                    => call.recorded = <<"low_confidence">>
              /\ Recorded("infeasible_action") => IsSafeDefault(call.decision)
              /\ (Recorded("rate_limit") /\ ~Recorded("infeasible_action"))
                    => call.decision.magnitude = Num(max_change_rate)

\* a call went through three checks that each changed the decision
C38_Witness ==
    /\ ValidatorReturned
    /\ call.modified
    /\ call.recorded = <<"parameter_bounds", "rate_limit", "infeasible_action">>


\* ---------------------------------------------------------------------
\* C40: with enabled = False in the safety configuration validate_decision
\* hands back the decision it was given, whatever the decision and the
\* state: the call returns, was_modified is false and nothing is recorded,
\* so the violation log stays empty and the engine's safety_interventions
\* stays 0.
C40_DisabledPassesThrough ==
    ~enabled =>
        /\ violation_log = <<>>
        /\ stats.safety_interventions = 0
        /\ ValidatorCalled =>
              /\ call.result = "decision"
              /\ call.decision = call.module_decision
              /\ ~call.modified
              /\ call.recorded = <<>>
        /\ call.op = "compute_adaptation" =>
              /\ ~call.modified
              /\ call.recorded = <<>>

\* the disabled validator was handed a decision below the confidence floor,
\* over the rate and outside the bounds in a state it could not have read,
\* after the engine had computed an adaptation
C40_Witness ==
    /\ ~enabled
    /\ ValidatorReturned
    /\ call.module_decision =
          ModuleDecision("decrease", Num(500), Num(100), Params(Num(1200), Absent))
    /\ call.state.missing = "task_state"
    /\ bounds # Bounds(NoBound, NoBound)
    /\ stats.total_adaptations >= 1


\* ---------------------------------------------------------------------
\* C36: whenever no engine operation is under way, is_running is true
\* exactly when a session is registered and active_module is set exactly
\* when is_running is true, also after initialize_session, swap_module and
\* end_session have interleaved at an await.
C36_RunningIffSessions ==
    ~inflight.pending =>
        /\ is_running <=> Live # {}
        /\ active_module # NoModule <=> is_running

=============================================================================
